---- MODULE Spec2Model ----
(***************************************************************************)
(* Verification model of file_organizer.py: the batch workers              *)
(* (FileOrganizerWorker.run, EncryptionWorker.run) with their              *)
(* ThreadPoolExecutor, and the encryption codec of EncryptionWorker.       *)
(*                                                                         *)
(* The specifications share the variables:                                 *)
(*   SpecRun    the dispatcher, the pool's task threads and cancel()       *)
(*   SpecCodec  _encrypt_file followed by _decrypt_file on one file        *)
(*   SpecDir    _process_file on a directory entry, encrypt then decrypt   *)
(*   SpecOrg    FileOrganizerWorker._process_file in two pool threads      *)
(*   SpecEntry  EncryptionWorker._process_file on one entry                *)
(*   SpecCat    calls of get_file_category through its lru_cache           *)
(*   SpecArchive  _encrypt_directory and _decrypt_directory on their own   *)
(*   SpecStage    _encrypt_directory of two entries in two pool threads    *)
(*   SpecRunFair  SpecRun with the scheduling of its threads               *)
(***************************************************************************)
EXTENDS Integers, Sequences, FiniteSets, TLC

VARIABLES
    \* ---- the worker object and its run() (SpecRun) ----
    worker,        \* "FileOrganizerWorker" or "EncryptionWorker"
    files,         \* self.files: sequence of entries, [isdir |-> BOOLEAN]
    is_cancelled,  \* self.is_cancelled
    pc,            \* position of run() in its code
    idx,           \* position of the submission loop in self.files (1-based)
    futures,       \* the list `futures`: entry indices in submission order
    fidx,          \* position of the result loop in `futures` (1-based)
    processed,     \* the local counter `processed`
    task,          \* per entry: state of its pool work item / future
    events,        \* the signals emitted so far, in emission order
    \* ---- history of the run, read only by the properties ----
    cancelM,       \* entries consumed by the submission loop when cancel() ran, -1 before
    cancelPc,      \* position of run() when cancel() ran, "" before
    lateSubmits,   \* entries submitted while is_cancelled was already set
    lateStarts,    \* entries whose task body began while is_cancelled was set
    runningAtCancel, \* entries whose task body was executing when cancel() ran
    finishOrder,   \* entries in the order their task bodies returned
    \* ---- the file system and the codec calls (SpecCodec, SpecDir) ----
    fs,            \* the file system: path -> node
    password,      \* self.password of the encrypting worker
    dpassword,     \* self.password of the decrypting worker
    cpc,           \* position of the codec scenario
    cipher,        \* the AES-CBC object of _encrypt_file: [key, chain]
    header,        \* the salt and IV _encrypt_file drew: [salt, iv]
    rpos,          \* read offset of infile in _encrypt_file
    raised,        \* message of the exception the last codec call raised, "" for none
    \* ---- _process_file on a directory entry (SpecDir) ----
    remove_originals, \* self.remove_originals
    operation,     \* self.operation of the worker whose _process_file runs
    entry,         \* the file_path of the last _process_file call
    ret,           \* what it returned: <<file_path, output_path>>, <<>> for None
    container,     \* the output_path the encrypt call returned
    original,      \* the file system before the encrypt call
    \* ---- _process_file in the pool's threads (SpecOrg, SpecStage) ----
    organize_by,   \* self.organize_by: "type", "date" or "both"
    org,           \* per pool thread: the locals of its _process_file call
    \* ---- get_file_category behind its lru_cache (SpecCat) ----
    lru,           \* the cache: <<file_path, result>> pairs, least recently used first
    cat            \* the last call: [arg, ret, hit]

runVars == <<worker, files, is_cancelled, pc, idx, futures, fidx, processed,
             task, events, cancelM, cancelPc, lateSubmits, lateStarts,
             runningAtCancel, finishOrder>>

codecVars == <<fs, password, dpassword, cpc, cipher, header, rpos, raised>>

dirVars == <<remove_originals, operation, entry, ret, container, original>>

orgVars == <<organize_by, org>>

catVars == <<lru, cat>>

vars == <<runVars, codecVars, dirVars, orgVars, catVars>>

-----------------------------------------------------------------------------
(* Bounds of the model *)

\* largest batch (len(self.files)) explored
MaxFiles == 3

\* os.cpu_count() of the machine explored
CpuCount == 2

-----------------------------------------------------------------------------
(* Constants of the program *)

Min(a, b) == IF a < b THEN a ELSE b

\* MAX_WORKERS = min(8, os.cpu_count() or 4)
MAX_WORKERS == Min(8, IF CpuCount = 0 THEN 4 ELSE CpuCount)

-----------------------------------------------------------------------------
(* Bytes, padding and the cipher *)

\* block size of AES, the 16 of pad(chunk, 16) and unpad(decrypted_data, 16)
BlockSize == 16

\* BUFFER_SIZE = 65536 is 4096 cipher blocks; the model reads chunks of
\* ChunkBlocks blocks, which keeps BUFFER_SIZE a multiple of the block size
ChunkBlocks == 2

BUFFER_SIZE == ChunkBlocks * BlockSize

\* plaintexts of up to MaxChunks full chunks, one more block and one byte
MaxChunks == 1

Rep(b, n) == [i \in 1..n |-> b]

\* Crypto.Util.Padding.pad(data, 16): PKCS#7, 1..16 bytes are always added
pad(data, bs) ==
    LET padlen == bs - (Len(data) % bs)
    IN  data \o Rep(padlen, padlen)

\* Crypto.Util.Padding.unpad(data, 16) raises ValueError on an empty input,
\* on a length that is no multiple of 16 and on a malformed padding
unpadRaises(data, bs) ==
    \/ Len(data) = 0
    \/ Len(data) % bs # 0
    \/ LET padlen == data[Len(data)]
       IN  \/ padlen < 1
           \/ padlen > Min(bs, Len(data))
           \/ \E i \in (Len(data) - padlen + 1)..Len(data) : data[i] # padlen

unpad(data, bs) == SubSeq(data, 1, Len(data) - data[Len(data)])

RECURSIVE Xor(_, _)
\* bitwise exclusive or of two bytes
Xor(a, b) ==
    IF a = 0 THEN b
    ELSE IF b = 0 THEN a
    ELSE ((a + b) % 2) + 2 * Xor(a \div 2, b \div 2)

XorBlock(x, y) == [i \in 1..BlockSize |-> Xor(x[i], y[i])]

\* derive_key_from_password: PBKDF2-HMAC-SHA256 of (password, salt), 32 bytes.
\* Modelled by a function that is deterministic in (password, salt) and
\* differs for the passwords and salts explored.
derive_key_from_password(pw, slt) ==
    [i \in 1..32 |-> (pw * 31 + slt[((i - 1) % 16) + 1] * 7 + i) % 256]

\* The AES block permutation under a key and its inverse, modelled by a
\* keyed permutation of the 16-byte blocks.
BlockEncrypt(key, x) == [i \in 1..BlockSize |-> (x[i] + key[i]) % 256]

BlockDecrypt(key, y) == [i \in 1..BlockSize |-> (y[i] - key[i] + 256) % 256]

\* AES.new(key, AES.MODE_CBC, iv): the object keeps the last ciphertext block
NewCipher(key, iv) == [key |-> key, chain |-> iv]

RECURSIVE CbcEncrypt(_, _, _)
\* cipher.encrypt(data), Len(data) a multiple of 16: the ciphertext of the
\* blocks of data chained onto `chain`
CbcEncrypt(key, chain, data) ==
    IF Len(data) = 0 THEN <<>>
    ELSE LET c == BlockEncrypt(key, XorBlock(SubSeq(data, 1, BlockSize), chain))
         IN  c \o CbcEncrypt(key, c, SubSeq(data, BlockSize + 1, Len(data)))

\* the chaining value after cipher.encrypt(data) returned `out`
ChainAfter(chain, out) ==
    IF Len(out) = 0 THEN chain ELSE SubSeq(out, Len(out) - BlockSize + 1, Len(out))

RECURSIVE CbcDecrypt(_, _, _)
\* cipher.decrypt(data), Len(data) a multiple of 16
CbcDecrypt(key, chain, data) ==
    IF Len(data) = 0 THEN <<>>
    ELSE LET c == SubSeq(data, 1, BlockSize)
         IN  XorBlock(BlockDecrypt(key, c), chain)
               \o CbcDecrypt(key, c, SubSeq(data, BlockSize + 1, Len(data)))

\* the random 16-byte values get_random_bytes(16) is drawn from in the model
RandomBlocks == {Rep(0, BlockSize), Rep(201, BlockSize)}

\* the passwords explored
Passwords == {1, 2}

-----------------------------------------------------------------------------
(* Strings and paths: a string is the sequence of its characters *)

SEP == "/"

DEFAULT_ENCRYPTION_EXTENSION == <<".", "e", "n", "c", "r", "y", "p", "t", "e", "d">>

endswith(str, suffix) ==
    /\ Len(suffix) <= Len(str)
    /\ SubSeq(str, Len(str) - Len(suffix) + 1, Len(str)) = suffix

startswith(str, prefix) ==
    /\ Len(prefix) <= Len(str)
    /\ SubSeq(str, 1, Len(prefix)) = prefix

\* str.rfind(ch) as a 1-based position, 0 when absent
rfind(str, ch) ==
    LET P == {i \in 1..Len(str) : str[i] = ch}
    IN  IF P = {} THEN 0 ELSE CHOOSE i \in P : \A j \in P : j <= i

\* os.path.basename
basename(path) == SubSeq(path, rfind(path, SEP) + 1, Len(path))

\* os.path.join(a, b)
join(a, b) ==
    IF Len(b) > 0 /\ b[1] = SEP THEN b
    ELSE IF Len(a) = 0 \/ a[Len(a)] = SEP THEN a \o b
    ELSE a \o <<SEP>> \o b


\* os.path.dirname
dirname(path) ==
    LET head == SubSeq(path, 1, rfind(path, SEP))
        P    == {i \in 1..Len(head) : head[i] # SEP}
    IN  IF P = {} THEN head
        ELSE SubSeq(head, 1, CHOOSE i \in P : \A j \in P : j <= i)

\* os.path.splitext: <<root, ext>>; the extension starts at the last dot of
\* the last component unless only dots precede it there
splitext(path) ==
    LET sepIndex == rfind(path, SEP)
        dotIndex == rfind(path, ".")
    IN  IF dotIndex > sepIndex
             /\ \E i \in (sepIndex + 1)..(dotIndex - 1) : path[i] # "."
          THEN <<SubSeq(path, 1, dotIndex - 1), SubSeq(path, dotIndex, Len(path))>>
          ELSE <<path, <<>>>>

Digit(d) == <<"0", "1", "2", "3", "4", "5", "6", "7", "8", "9">>[d + 1]

RECURSIVE IntToStr(_)
\* str(n) of a natural number, as in the f-strings that format `counter`
IntToStr(n) == IF n < 10 THEN <<Digit(n)>> ELSE IntToStr(n \div 10) \o <<Digit(n % 10)>>

-----------------------------------------------------------------------------
(* The file system *)

\* a regular file with the given bytes
FileNode(data) == [kind |-> "file", fmt |-> "raw", data |-> data, members |-> <<>>]

DirNode == [kind |-> "dir", fmt |-> "", data |-> <<>>, members |-> <<>>]

\* a regular file holding a zip archive of the members (relative path -> node)
ZipNode(members) == [kind |-> "file", fmt |-> "zip", data |-> <<>>, members |-> members]

exists(f, path) == path \in DOMAIN f

isdir(f, path) == exists(f, path) /\ f[path].kind = "dir"

\* f with path bound to node (created or replaced)
Put(f, path, node) ==
    [q \in DOMAIN f \cup {path} |-> IF q = path THEN node ELSE f[q]]

\* f without the paths in gone
Remove(f, gone) == [q \in DOMAIN f \ gone |-> f[q]]

\* a regular file whose bytes the model does not track
OpaqueNode == [kind |-> "file", fmt |-> "opaque", data |-> <<>>, members |-> <<>>]

\* the directory_structure.json written by _encrypt_directory
JsonNode == [kind |-> "file", fmt |-> "json", data |-> <<>>, members |-> <<>>]

\* everything below directory d
Under(f, d) == {q \in DOMAIN f : startswith(q, d \o <<SEP>>)}

\* os.path.relpath(q, d) for q below d
Rel(q, d) == SubSeq(q, Len(d) + 2, Len(q))

\* shutil.rmtree(d)
rmtree(f, d) == Remove(f, {d} \cup Under(f, d))

\* f with every <<path, node>> of pairs written
PutAll(f, pairs) ==
    [q \in DOMAIN f \cup {pr[1] : pr \in pairs} |->
        IF \E pr \in pairs : pr[1] = q
          THEN (CHOOSE pr \in pairs : pr[1] = q)[2]
          ELSE f[q]]

-----------------------------------------------------------------------------
(* _encrypt_file and _decrypt_file *)

NoCipher == [key |-> <<>>, chain |-> <<>>]

NoHeader == [salt |-> <<>>, iv |-> <<>>]

\* the variables of the directory scenario while another one is explored
DirIdle ==
    /\ remove_originals = FALSE
    /\ operation = ""
    /\ entry = <<>>
    /\ ret = <<>>
    /\ container = <<>>
    /\ original = <<>>

\* the variables of the organizer tasks while another scenario is explored
OrgIdle ==
    /\ organize_by = ""
    /\ org = <<>>

\* get_file_category not yet called
CatIdle ==
    /\ lru = <<>>
    /\ cat = [arg |-> <<>>, ret |-> <<>>, hit |-> FALSE]

\* the codec scenario's variables while a run() is explored
CodecIdle ==
    /\ fs = <<>>
    /\ password = 0
    /\ dpassword = 0
    /\ cpc = "idle"
    /\ cipher = NoCipher
    /\ header = NoHeader
    /\ rpos = 0
    /\ raised = ""
    /\ DirIdle

\* chunk = infile.read(BUFFER_SIZE) at offset pos
ReadChunk(data, pos) == SubSeq(data, pos + 1, Min(pos + BUFFER_SIZE, Len(data)))

\* mutant: every chunk is padded
PadChunkAlways(chunk) == pad(chunk, 16)

\* if len(chunk) % 16 != 0: chunk = pad(chunk, 16)
PadChunk(chunk) == IF Len(chunk) % 16 # 0 THEN pad(chunk, 16) ELSE chunk

RECURSIVE EncryptChunks(_, _, _, _)
\* the while loop of _encrypt_file from offset pos: the ciphertext written
EncryptChunks(key, chain, data, pos) ==
    LET chunk == ReadChunk(data, pos)
    IN  IF Len(chunk) = 0 THEN <<>>
        ELSE LET out == CbcEncrypt(key, chain, PadChunk(chunk))
             IN  out \o EncryptChunks(key, ChainAfter(chain, out), data, pos + Len(chunk))

\* the container _encrypt_file writes for a plaintext: salt, IV, ciphertext
EncryptedBytes(data, pw, slt, iv) ==
    slt \o iv \o EncryptChunks(derive_key_from_password(pw, slt), iv, data, 0)

ErrPadding == "Invalid padding or incorrect password"

ErrIv == "Incorrect IV length"

\* _decrypt_file on the bytes of input_path: [raised, data].  AES.new raises
\* ValueError on an IV that is not 16 bytes; cipher.decrypt raises ValueError
\* on a length that is no multiple of 16 and unpad on a bad padding, and both
\* are re-raised as ValueError("Invalid padding or incorrect password").
DecryptedBytes(bytes, pw) ==
    LET n    == Len(bytes)
        slt  == SubSeq(bytes, 1, Min(16, n))
        iv   == SubSeq(bytes, 17, Min(32, n))
        enc  == SubSeq(bytes, 33, n)
        key  == derive_key_from_password(pw, slt)
        dec  == CbcDecrypt(key, iv, enc)
    IN  IF Len(iv) # 16 THEN [raised |-> ErrIv, data |-> <<>>]
        ELSE IF Len(enc) % 16 # 0 \/ unpadRaises(dec, 16)
               THEN [raised |-> ErrPadding, data |-> <<>>]
               ELSE [raised |-> "", data |-> unpad(dec, 16)]

-----------------------------------------------------------------------------
(* Signals *)

\* one emitted Qt signal; a, b carry the integer arguments
Signal(sig, a, b, msg) == [sig |-> sig, a |-> a, b |-> b, msg |-> msg]

Emit(s) == events' = Append(events, s)

N == Len(files)

Finished == {"tuple", "none"}

\* entries whose work item is in the pool and whose body has not returned
InPool == {i \in 1..N : task[i] \in {"queued", "running"}}

Running == {i \in 1..N : task[i] = "running"}

-----------------------------------------------------------------------------
(* Initial state: a constructed worker, start() called *)

\* Only FileOrganizerWorker.run looks at os.path.isdir of an entry; for
\* EncryptionWorker.run every entry is submitted alike, so its entries are
\* not distinguished here (its _process_file branches on it, see SpecDir).
InitRun ==
    /\ worker \in {"FileOrganizerWorker", "EncryptionWorker"}
    /\ \E n \in 1..MaxFiles :
          files \in [1..n -> [isdir : IF worker = "EncryptionWorker"
                                         THEN {FALSE} ELSE BOOLEAN]]
    /\ is_cancelled = FALSE
    /\ pc = "start"
    /\ idx = 1
    /\ futures = <<>>
    /\ fidx = 1
    /\ processed = 0
    /\ task = [i \in 1..Len(files) |-> "new"]
    /\ events = <<>>
    /\ cancelM = -1
    /\ cancelPc = ""
    /\ lateSubmits = {}
    /\ lateStarts = {}
    /\ runningAtCancel = {}
    /\ finishOrder = <<>>
    /\ CodecIdle
    /\ OrgIdle
    /\ CatIdle

histUnchanged == UNCHANGED <<cancelM, cancelPc, lateStarts, runningAtCancel, finishOrder>>

\* the run actions do not touch the codec scenario's state
codecUnchanged == UNCHANGED <<codecVars, dirVars, orgVars, catVars>>

-----------------------------------------------------------------------------
(* run(): the dispatcher thread *)

\* total_files = len(self.files); processed = 0; FileOrganizerWorker then
\* creates the "Organized by ..." folders with os.makedirs, which may raise.
Start ==
    /\ pc = "start"
    /\ \/ pc' = "pool"
       \/ worker = "FileOrganizerWorker" /\ pc' = "except"
    /\ UNCHANGED <<worker, files, is_cancelled, idx, futures, fidx, processed,
                   task, events, lateSubmits>>
    /\ histUnchanged
    /\ codecUnchanged

\* with ThreadPoolExecutor(max_workers=MAX_WORKERS) as executor: futures = []
\* The constructor may raise (the pool cannot be created).
CreatePool ==
    /\ pc = "pool"
    /\ pc' \in {"submit_check", "except"}
    /\ UNCHANGED <<worker, files, is_cancelled, idx, futures, fidx, processed,
                   task, events, lateSubmits>>
    /\ histUnchanged
    /\ codecUnchanged

\* mutant: the submission loop without its `if self.is_cancelled: break`
SubmitCheckNoCancel ==
    /\ pc = "submit_check"
    /\ pc' = IF idx > N THEN "result_check" ELSE "submit_body"
    /\ UNCHANGED <<worker, files, is_cancelled, idx, futures, fidx, processed,
                   task, events, lateSubmits>>
    /\ histUnchanged
    /\ codecUnchanged

\* for file_path in self.files: if self.is_cancelled: break
SubmitCheck ==
    /\ pc = "submit_check"
    /\ pc' = IF idx > N \/ is_cancelled THEN "result_check" ELSE "submit_body"
    /\ UNCHANGED <<worker, files, is_cancelled, idx, futures, fidx, processed,
                   task, events, lateSubmits>>
    /\ histUnchanged
    /\ codecUnchanged

\* mutant: the submission loop without its directory test
SubmitBodyNoSkip ==
    /\ pc = "submit_body"
    /\ futures' = Append(futures, idx)
    /\ task' = [task EXCEPT ![idx] = "queued"]
    /\ lateSubmits' = IF is_cancelled THEN lateSubmits \cup {idx} ELSE lateSubmits
    /\ idx' = idx + 1
    /\ pc' = "submit_check"
    /\ UNCHANGED <<worker, files, is_cancelled, fidx, processed, events>>
    /\ histUnchanged
    /\ codecUnchanged

\* FileOrganizerWorker only: if os.path.isdir(file_path): processed += 1;
\* progress_updated.emit(processed, total_files); continue
\* otherwise: future = executor.submit(self._process_file, ...);
\* futures.append(future)
SubmitBody ==
    /\ pc = "submit_body"
    /\ IF worker = "FileOrganizerWorker" /\ files[idx].isdir
         THEN /\ processed' = processed + 1
              /\ Emit(Signal("progress_updated", processed + 1, N, ""))
              /\ UNCHANGED <<futures, task, lateSubmits>>
         ELSE /\ futures' = Append(futures, idx)
              /\ task' = [task EXCEPT ![idx] = "queued"]
              /\ lateSubmits' = IF is_cancelled THEN lateSubmits \cup {idx}
                                                ELSE lateSubmits
              /\ UNCHANGED <<processed, events>>
    /\ idx' = idx + 1
    /\ pc' = "submit_check"
    /\ UNCHANGED <<worker, files, is_cancelled, fidx>>
    /\ histUnchanged
    /\ codecUnchanged

\* for i, future in enumerate(futures): if self.is_cancelled: break
ResultCheck ==
    /\ pc = "result_check"
    /\ pc' = IF fidx > Len(futures) \/ is_cancelled THEN "shutdown" ELSE "result_wait"
    /\ UNCHANGED <<worker, files, is_cancelled, idx, futures, fidx, processed,
                   task, events, lateSubmits>>
    /\ histUnchanged
    /\ codecUnchanged

\* mutant: the result loop without its try/except, _process_file re-raising:
\* a failed task's exception leaves the loop and reaches run()'s handler
ResultWaitRaises ==
    /\ pc = "result_wait"
    /\ task[futures[fidx]] \in Finished
    /\ IF task[futures[fidx]] = "tuple"
         THEN /\ events' = events \o <<Signal("file_processed", futures[fidx], 0, ""),
                                       Signal("progress_updated", processed + 1, N, "")>>
              /\ processed' = processed + 1
              /\ fidx' = fidx + 1
              /\ pc' = "result_check"
         ELSE /\ pc' = "except"
              /\ UNCHANGED <<events, processed, fidx>>
    /\ UNCHANGED <<worker, files, is_cancelled, idx, futures, task, lateSubmits>>
    /\ histUnchanged
    /\ codecUnchanged

\* mutant: `processed += 1` under `if result:`, the progress emit after it
ResultWaitCountsSuccess ==
    /\ pc = "result_wait"
    /\ task[futures[fidx]] \in Finished
    /\ LET ok == task[futures[fidx]] = "tuple"
           p  == IF ok THEN processed + 1 ELSE processed
       IN  /\ events' = (IF ok
                           THEN Append(events, Signal("file_processed", futures[fidx], 0, ""))
                           ELSE events)
                        \o <<Signal("progress_updated", p, N, "")>>
           /\ processed' = p
    /\ fidx' = fidx + 1
    /\ pc' = "result_check"
    /\ UNCHANGED <<worker, files, is_cancelled, idx, futures, task, lateSubmits>>
    /\ histUnchanged
    /\ codecUnchanged

\* mutant: file_processed emitted without the `if result:` test
ResultWaitEmitsAlways ==
    /\ pc = "result_wait"
    /\ task[futures[fidx]] \in Finished
    /\ events' = events \o <<Signal("file_processed", futures[fidx], 0, ""),
                              Signal("progress_updated", processed + 1, N, "")>>
    /\ processed' = processed + 1
    /\ fidx' = fidx + 1
    /\ pc' = "result_check"
    /\ UNCHANGED <<worker, files, is_cancelled, idx, futures, task, lateSubmits>>
    /\ histUnchanged
    /\ codecUnchanged

\* result = future.result()   (blocks until the task body has returned)
\* if result: self.file_processed.emit(source, dest)
\* processed += 1; self.progress_updated.emit(processed, total_files)
ResultWait ==
    /\ pc = "result_wait"
    /\ task[futures[fidx]] \in Finished
    /\ events' = (IF task[futures[fidx]] = "tuple"
                    THEN Append(events, Signal("file_processed", futures[fidx], 0, ""))
                    ELSE events)
                 \o <<Signal("progress_updated", processed + 1, N, "")>>
    /\ processed' = processed + 1
    /\ fidx' = fidx + 1
    /\ pc' = "result_check"
    /\ UNCHANGED <<worker, files, is_cancelled, idx, futures, task, lateSubmits>>
    /\ histUnchanged
    /\ codecUnchanged

\* mutant: executor.shutdown(wait=False), the block is left at once
ShutdownNoWait ==
    /\ pc = "shutdown"
    /\ pc' = "final"
    /\ UNCHANGED <<worker, files, is_cancelled, idx, futures, fidx, processed,
                   task, events, lateSubmits>>
    /\ histUnchanged
    /\ codecUnchanged

\* leaving the with block: executor.shutdown(wait=True) returns once every
\* submitted work item, queued ones included, has been run by a pool thread
Shutdown ==
    /\ pc = "shutdown"
    /\ InPool = {}
    /\ pc' = "final"
    /\ UNCHANGED <<worker, files, is_cancelled, idx, futures, fidx, processed,
                   task, events, lateSubmits>>
    /\ histUnchanged
    /\ codecUnchanged

\* mutant: the success emit not under `else`, so a cancelled run emits twice
FinalTwice ==
    /\ pc = "final"
    /\ events' = (IF is_cancelled
                    THEN Append(events, Signal("operation_completed", 0, 0, "Operation cancelled"))
                    ELSE events)
                 \o <<Signal("operation_completed", processed, N, "Successfully")>>
    /\ pc' = "done"
    /\ UNCHANGED <<worker, files, is_cancelled, idx, futures, fidx, processed,
                   task, lateSubmits>>
    /\ histUnchanged
    /\ codecUnchanged

\* mutant: the completion does not look at self.is_cancelled
FinalNoCancel ==
    /\ pc = "final"
    /\ Emit(Signal("operation_completed", processed, N, "Successfully"))
    /\ pc' = "done"
    /\ UNCHANGED <<worker, files, is_cancelled, idx, futures, fidx, processed,
                   task, lateSubmits>>
    /\ histUnchanged
    /\ codecUnchanged

\* if self.is_cancelled: operation_completed.emit(False, "Operation cancelled")
\* else: operation_completed.emit(True, f"Successfully ... {processed} of {total_files} ...")
Final ==
    /\ pc = "final"
    /\ IF is_cancelled
         THEN Emit(Signal("operation_completed", 0, 0, "Operation cancelled"))
         ELSE Emit(Signal("operation_completed", processed, N, "Successfully"))
    /\ pc' = "done"
    /\ UNCHANGED <<worker, files, is_cancelled, idx, futures, fidx, processed,
                   task, lateSubmits>>
    /\ histUnchanged
    /\ codecUnchanged

\* mutant: the handler reports the run like a normal end
ExceptAsSuccess ==
    /\ pc = "except"
    /\ InPool = {}
    /\ Emit(Signal("operation_completed", processed, N, "Successfully"))
    /\ pc' = "done"
    /\ UNCHANGED <<worker, files, is_cancelled, idx, futures, fidx, processed,
                   task, lateSubmits>>
    /\ histUnchanged
    /\ codecUnchanged

\* except Exception as e: operation_completed.emit(False, f"Error: {str(e)}")
\* An exception raised inside the with block first runs the block's exit,
\* which waits for the pool like Shutdown.
Except ==
    /\ pc = "except"
    /\ InPool = {}
    /\ Emit(Signal("operation_completed", 0, 0, "Error"))
    /\ pc' = "done"
    /\ UNCHANGED <<worker, files, is_cancelled, idx, futures, fidx, processed,
                   task, lateSubmits>>
    /\ histUnchanged
    /\ codecUnchanged

-----------------------------------------------------------------------------
(* The pool's threads *)

\* mutant: a pool whose threads take no work item once is_cancelled is set
TaskStartUnlessCancelled(i) ==
    /\ task[i] = "queued"
    /\ ~is_cancelled
    /\ \A j \in 1..(i - 1) : task[j] # "queued"
    /\ Cardinality(Running) < MAX_WORKERS
    /\ task' = [task EXCEPT ![i] = "running"]
    /\ IF worker = "EncryptionWorker"
         THEN Emit(Signal("status_updated", i, 0, "ing"))
         ELSE UNCHANGED events
    /\ lateStarts' = IF is_cancelled THEN lateStarts \cup {i} ELSE lateStarts
    /\ UNCHANGED <<worker, files, is_cancelled, pc, idx, futures, fidx, processed,
                   cancelM, cancelPc, lateSubmits, runningAtCancel, finishOrder>>
    /\ codecUnchanged

\* mutant: a pool that starts a thread for every work item
TaskStartUnbounded(i) ==
    /\ task[i] = "queued"
    /\ \A j \in 1..(i - 1) : task[j] # "queued"
    /\ task' = [task EXCEPT ![i] = "running"]
    /\ IF worker = "EncryptionWorker"
         THEN Emit(Signal("status_updated", i, 0, "ing"))
         ELSE UNCHANGED events
    /\ lateStarts' = IF is_cancelled THEN lateStarts \cup {i} ELSE lateStarts
    /\ UNCHANGED <<worker, files, is_cancelled, pc, idx, futures, fidx, processed,
                   cancelM, cancelPc, lateSubmits, runningAtCancel, finishOrder>>
    /\ codecUnchanged

\* A pool thread takes the oldest queued work item (the work queue is FIFO)
\* and calls _process_file; at most MAX_WORKERS threads exist.
\* EncryptionWorker._process_file first emits status_updated("<Op>ing: name").
TaskStart(i) ==
    /\ task[i] = "queued"
    /\ \A j \in 1..(i - 1) : task[j] # "queued"
    /\ Cardinality(Running) < MAX_WORKERS
    /\ task' = [task EXCEPT ![i] = "running"]
    /\ IF worker = "EncryptionWorker"
         THEN Emit(Signal("status_updated", i, 0, "ing"))
         ELSE UNCHANGED events
    /\ lateStarts' = IF is_cancelled THEN lateStarts \cup {i} ELSE lateStarts
    /\ UNCHANGED <<worker, files, is_cancelled, pc, idx, futures, fidx, processed,
                   cancelM, cancelPc, lateSubmits, runningAtCancel, finishOrder>>
    /\ codecUnchanged

\* _process_file returns (file_path, dest_path) when no step raised, and
\* otherwise catches the exception, emits status_updated("Error: ...") and
\* returns None.  FileOrganizerWorker emits status_updated("Copied to ...")
\* after its copies.
TaskFinish(i, ok) ==
    /\ task[i] = "running"
    /\ task' = [task EXCEPT ![i] = IF ok THEN "tuple" ELSE "none"]
    /\ IF ~ok
         THEN Emit(Signal("status_updated", i, 0, "Error"))
         ELSE IF worker = "FileOrganizerWorker"
                THEN Emit(Signal("status_updated", i, 0, "Copied"))
                ELSE UNCHANGED events
    /\ finishOrder' = Append(finishOrder, i)
    /\ UNCHANGED <<worker, files, is_cancelled, pc, idx, futures, fidx, processed,
                   lateSubmits, cancelM, cancelPc, lateStarts, runningAtCancel>>
    /\ codecUnchanged

-----------------------------------------------------------------------------
(* The GUI thread *)

\* def cancel(self): self.is_cancelled = True
\* Only the first call changes the flag, and once run() has returned nothing
\* reads it; cancel() is taken while the run is in progress.
Cancel ==
    /\ ~is_cancelled
    /\ pc # "done"
    /\ is_cancelled' = TRUE
    /\ cancelM' = idx - 1
    /\ cancelPc' = pc
    /\ runningAtCancel' = Running
    /\ UNCHANGED <<worker, files, pc, idx, futures, fidx, processed, task,
                   events, lateSubmits, lateStarts, finishOrder>>
    /\ codecUnchanged

-----------------------------------------------------------------------------

NextRun ==
    \/ Start
    \/ CreatePool
    \/ SubmitCheck
    \/ SubmitBody
    \/ ResultCheck
    \/ ResultWait
    \/ Shutdown
    \/ Final
    \/ Except
    \/ \E i \in 1..N : TaskStart(i)
    \/ \E i \in 1..N : \E ok \in BOOLEAN : TaskFinish(i, ok)
    \/ Cancel

SpecRun == InitRun /\ [][NextRun]_vars

-----------------------------------------------------------------------------
(* EncryptionWorker._process_file with the directory codec, as functions   *)
(* of the file system.  An outcome is [fs, raised]: the file system left   *)
(* behind and the message of the exception raised, "" for none.            *)

TEMP == <<"_", "t", "e", "m", "p">>

ZIP == <<".", "z", "i", "p">>

MANIFEST == <<"d", "i", "r", "e", "c", "t", "o", "r", "y", "_", "s", "t", "r", "u",
              "c", "t", "u", "r", "e", ".", "j", "s", "o", "n">>

DECRYPTED == <<"d", "e", "c", "r", "y", "p", "t", "e", "d", "_">>

Outcome(f, msg) == [fs |-> f, raised |-> msg]

\* the salt and IV one _encrypt_file call may draw
Headers == [salt : RandomBlocks, iv : RandomBlocks]

\* _encrypt_file(input_path, output_path) with the header hdr drawn
EncryptFileOutcome(f, input_path, output_path, pw, hdr) ==
    IF ~exists(f, input_path) THEN Outcome(f, "FileNotFoundError")
    ELSE IF isdir(f, input_path) \/ isdir(f, output_path)
      THEN Outcome(f, "IsADirectoryError")
    ELSE Outcome(Put(f, output_path,
                     IF f[input_path].fmt = "raw"
                       THEN FileNode(EncryptedBytes(f[input_path].data, pw, hdr.salt, hdr.iv))
                       ELSE OpaqueNode),
                 "")

\* the OSError of a write that the device refuses (no space left)
ErrWrite == "OSError"

\* with open(output_path, 'wb') as outfile: outfile.write(data) when the
\* write raises: the file was created and holds a proper prefix of data
WriteFaults(f, output_path, data) ==
    {Outcome(Put(f, output_path, FileNode(SubSeq(data, 1, k))), ErrWrite) :
        k \in 0..(Len(data) - 1)}

\* mutant: _decrypt_file without its `except ValueError` clause
DecryptFileUntranslated(f, input_path, output_path, pw) ==
    IF ~exists(f, input_path) THEN {Outcome(f, "FileNotFoundError")}
    ELSE IF isdir(f, input_path) THEN {Outcome(f, "IsADirectoryError")}
    ELSE IF f[input_path].fmt = "raw"
      THEN LET r == DecryptedBytes(f[input_path].data, pw)
           IN  IF r.raised = ErrPadding THEN {Outcome(f, "Padding is incorrect.")}
               ELSE IF r.raised # "" THEN {Outcome(f, r.raised)}
               ELSE IF isdir(f, output_path) THEN {Outcome(f, "IsADirectoryError")}
               ELSE {Outcome(Put(f, output_path, FileNode(r.data)), "")}
                      \cup WriteFaults(f, output_path, r.data)
    ELSE {Outcome(f, "Padding is incorrect.")}
           \cup (IF isdir(f, output_path) THEN {}
                 ELSE {Outcome(Put(f, output_path, OpaqueNode), ""),
                       Outcome(Put(f, output_path, OpaqueNode), ErrWrite)})

\* _decrypt_file(input_path, output_path): the possible outcomes.  The bytes
\* of a file that _encrypt_file did not write (an archive) are not tracked:
\* their decryption raises, or by chance unpads and writes meaningless bytes.
DecryptFileOutcomes(f, input_path, output_path, pw) ==
    IF ~exists(f, input_path) THEN {Outcome(f, "FileNotFoundError")}
    ELSE IF isdir(f, input_path) THEN {Outcome(f, "IsADirectoryError")}
    ELSE IF f[input_path].fmt = "raw"
      THEN LET r == DecryptedBytes(f[input_path].data, pw)
           IN  IF r.raised # "" THEN {Outcome(f, r.raised)}
               ELSE IF isdir(f, output_path) THEN {Outcome(f, "IsADirectoryError")}
               ELSE {Outcome(Put(f, output_path, FileNode(r.data)), "")}
                      \cup WriteFaults(f, output_path, r.data)
    ELSE {Outcome(f, ErrPadding)}
           \cup (IF isdir(f, output_path) THEN {}
                 ELSE {Outcome(Put(f, output_path, OpaqueNode), ""),
                       Outcome(Put(f, output_path, OpaqueNode), ErrWrite)})

\* the files below a directory, which os.walk visits
FilesUnder(f, d) == {q \in Under(f, d) : f[q].kind = "file"}

\* mutant: _encrypt_directory without its finally block
FinallyEncryptSkipped(g, temp_dir) == g

\* finally: if os.path.exists(temp_dir): shutil.rmtree(temp_dir)
FinallyEncrypt(g, temp_dir) ==
    IF exists(g, temp_dir) THEN rmtree(g, temp_dir) ELSE g

\* finally: the same, then if os.path.exists(temp_zip): os.remove(temp_zip)
FinallyDecrypt(g, temp_dir, temp_zip) ==
    LET g1 == IF exists(g, temp_dir) THEN rmtree(g, temp_dir) ELSE g
    IN  IF exists(g1, temp_zip) THEN Remove(g1, {temp_zip}) ELSE g1

\* the subsets of pairs <<path, node>> below temp_dir that hold the parent
\* directory of each of their paths: the trees a step may have written when
\* it raises
PartialTrees(pairs, temp_dir) ==
    {S \in SUBSET pairs :
        \A x \in S : \/ dirname(x[1]) = temp_dir
                     \/ \E y \in S : y[1] = dirname(x[1]) /\ y[2].kind = "dir"}

\* _encrypt_directory(input_dir, output_path); hdrs gives the header drawn
\* for each file below input_dir
EncryptDirectoryOutcome(f, input_dir, output_path, pw, hdrs) ==
    LET temp_dir == output_path \o TEMP
        staged   == {<<join(temp_dir, Rel(q, input_dir))
                         \o (IF f[q].kind = "file" THEN DEFAULT_ENCRYPTION_EXTENSION ELSE <<>>),
                       IF f[q].kind = "dir" THEN DirNode
                       ELSE IF f[q].fmt = "raw"
                         THEN FileNode(EncryptedBytes(f[q].data, pw, hdrs[q].salt, hdrs[q].iv))
                         ELSE OpaqueNode>> : q \in Under(f, input_dir)}
        f1       == PutAll(Put(f, temp_dir, DirNode),
                           staged \cup {<<join(temp_dir, MANIFEST), JsonNode>>})
        members  == [m \in {Rel(q, temp_dir) : q \in Under(f1, temp_dir)} |->
                        f1[join(temp_dir, m)]]
        f2       == Put(f1, output_path \o ZIP, ZipNode(members))
    IN  IF exists(f, temp_dir) /\ ~isdir(f, temp_dir)
          THEN Outcome(f, "FileExistsError")           \* os.makedirs, before the try
        ELSE IF isdir(f, output_path \o ZIP)
          THEN Outcome(FinallyEncrypt(f1, temp_dir), "IsADirectoryError")   \* make_archive
        ELSE IF isdir(f, output_path)
          THEN Outcome(FinallyEncrypt(f2, temp_dir), "IsADirectoryError")   \* os.rename
        ELSE Outcome(FinallyEncrypt(Put(Remove(f2, {output_path \o ZIP}), output_path,
                                        ZipNode(members)),
                                    temp_dir), "")

\* _encrypt_directory when a step raises an OSError: os.makedirs or
\* _encrypt_file while staging, the write of the manifest, make_archive
\* (which may leave a part of <output_path>.zip), os.rename
EncryptDirectoryFaults(f, input_dir, output_path, pw, hdrs) ==
    LET temp_dir == output_path \o TEMP
        staged   == {<<join(temp_dir, Rel(q, input_dir))
                         \o (IF f[q].kind = "file" THEN DEFAULT_ENCRYPTION_EXTENSION ELSE <<>>),
                       IF f[q].kind = "dir" THEN DirNode ELSE OpaqueNode>> :
                        q \in Under(f, input_dir)}
        f0       == Put(f, temp_dir, DirNode)
        f1       == PutAll(f0, staged \cup {<<join(temp_dir, MANIFEST), JsonNode>>})
    IN  IF exists(f, temp_dir) /\ ~isdir(f, temp_dir) THEN {}
        ELSE {Outcome(FinallyEncrypt(PutAll(f0, S), temp_dir), ErrWrite) :
                 S \in PartialTrees(staged, temp_dir)}
             \cup {Outcome(FinallyEncrypt(f1, temp_dir), ErrWrite)}
             \cup (IF isdir(f, output_path \o ZIP) THEN {}
                   ELSE {Outcome(FinallyEncrypt(Put(f1, output_path \o ZIP, OpaqueNode),
                                                temp_dir), ErrWrite)})

RECURSIVE DecryptMembers(_, _, _, _, _)
\* the loop of _decrypt_directory over the extracted files `todo`, stopping
\* at the first _decrypt_file that raises
DecryptMembers(f, todo, temp_dir, output_dir, pw) ==
    IF todo = {} THEN Outcome(f, "")
    ELSE LET q   == CHOOSE x \in todo : TRUE
             rel == Rel(q, temp_dir)
             dst == join(output_dir,
                         SubSeq(rel, 1, Len(rel) - Len(DEFAULT_ENCRYPTION_EXTENSION)))
             r   == IF f[q].fmt = "raw" THEN DecryptedBytes(f[q].data, pw)
                    ELSE [raised |-> ErrPadding, data |-> <<>>]
         IN  IF r.raised # "" THEN Outcome(f, r.raised)
             ELSE DecryptMembers(Put(f, dst, FileNode(r.data)), todo \ {q},
                                 temp_dir, output_dir, pw)

ErrDirectory == "Failed to decrypt directory"

\* _decrypt_directory(input_path, output_dir).  shutil.copy2 raises when
\* input_path is a directory; every exception of the try block is re-raised
\* as ValueError("Failed to decrypt directory: ..."), and the finally block
\* removes temp_dir and temp_zip.
DecryptDirectoryOutcome(f, input_path, output_dir, pw) ==
    LET temp_dir == input_path \o TEMP
        temp_zip == input_path \o ZIP
        f1       == Put(f, temp_dir, DirNode)
        cleanup(g) == FinallyDecrypt(g, temp_dir, temp_zip)
    IN  IF exists(f, temp_dir) /\ ~isdir(f, temp_dir)
          THEN Outcome(f, "FileExistsError")           \* os.makedirs, before the try
        ELSE IF ~exists(f, input_path) \/ isdir(f, input_path)
          THEN Outcome(cleanup(f1), ErrDirectory)                   \* shutil.copy2
        ELSE IF f[input_path].fmt # "zip"
          THEN Outcome(cleanup(f1), ErrDirectory)                   \* zipfile.ZipFile
        ELSE
          LET mem  == f[input_path].members
              f2   == PutAll(Put(f1, temp_zip, f[input_path]),
                             {<<join(temp_dir, m), mem[m]>> : m \in DOMAIN mem})
              f3   == IF exists(f2, output_dir) THEN f2 ELSE Put(f2, output_dir, DirNode)
              dirs == {<<join(output_dir, Rel(q, temp_dir)), DirNode>> :
                          q \in {x \in Under(f2, temp_dir) : f2[x].kind = "dir"}}
              todo == {q \in FilesUnder(f2, temp_dir) :
                          /\ basename(q) # MANIFEST
                          /\ endswith(q, DEFAULT_ENCRYPTION_EXTENSION)}
              r    == DecryptMembers(PutAll(f3, dirs), todo, temp_dir, output_dir, pw)
          IN  IF exists(f2, output_dir) /\ ~isdir(f2, output_dir)
                THEN Outcome(cleanup(f2), ErrDirectory)             \* os.makedirs
              ELSE IF exists(f2, join(temp_dir, MANIFEST))
                THEN Outcome(cleanup(r.fs),
                             IF r.raised = "" THEN "" ELSE ErrDirectory)
              ELSE \* shutil.rmtree(output_dir); shutil.copytree(temp_dir, output_dir)
                   Outcome(cleanup(PutAll(Put(rmtree(f3, output_dir), output_dir, DirNode),
                                          {<<join(output_dir, Rel(q, temp_dir)), f2[q]>> :
                                              q \in Under(f2, temp_dir)})),
                           "")

\* _decrypt_directory of an archive when a step raises an OSError:
\* shutil.copy2 (which may leave a part of temp_zip) or extractall (which
\* may leave a part of the tree)
DecryptDirectoryFaults(f, input_path, output_dir, pw) ==
    LET temp_dir == input_path \o TEMP
        temp_zip == input_path \o ZIP
        f1       == Put(f, temp_dir, DirNode)
    IN  IF exists(f, temp_dir) /\ ~isdir(f, temp_dir) THEN {}
        ELSE IF ~exists(f, input_path) \/ isdir(f, input_path) THEN {}
        ELSE IF f[input_path].fmt # "zip" THEN {}
        ELSE LET mem == f[input_path].members
                 f2  == Put(f1, temp_zip, f[input_path])
             IN  {Outcome(FinallyDecrypt(Put(f1, temp_zip, OpaqueNode), temp_dir, temp_zip),
                          ErrDirectory)}
                 \cup {Outcome(FinallyDecrypt(PutAll(f2, S), temp_dir, temp_zip),
                               ErrDirectory) :
                          S \in PartialTrees({<<join(temp_dir, m), mem[m]>> : m \in DOMAIN mem},
                                             temp_dir)}

\* the output path _process_file proposes
ProposedOutput(file_path, op) ==
    IF op = "encrypt" THEN file_path \o DEFAULT_ENCRYPTION_EXTENSION
    ELSE IF endswith(file_path, DEFAULT_ENCRYPTION_EXTENSION)
      THEN SubSeq(file_path, 1, Len(file_path) - Len(DEFAULT_ENCRYPTION_EXTENSION))
    ELSE join(dirname(file_path), DECRYPTED \o basename(file_path))

\* one turn of the duplicate loop: the next candidate after output_path
NextCandidate(file_path, output_path, op, counter) ==
    IF op = "encrypt"
      THEN splitext(file_path)[1] \o <<"_">> \o IntToStr(counter)
             \o splitext(file_path)[2] \o DEFAULT_ENCRYPTION_EXTENSION
      ELSE LET name == splitext(basename(output_path))[1]
               ext  == splitext(basename(output_path))[2]
               new  == IF startswith(name, DECRYPTED)
                         THEN DECRYPTED \o IntToStr(counter) \o <<"_">>
                                \o SubSeq(name, 11, Len(name))
                         ELSE DECRYPTED \o IntToStr(counter) \o <<"_">> \o name
           IN  join(dirname(output_path), new \o ext)

RECURSIVE ResolveDuplicate(_, _, _, _, _)
\* counter = 1; while os.path.exists(output_path): ...; counter += 1
ResolveDuplicate(f, file_path, output_path, op, counter) ==
    IF ~exists(f, output_path) THEN output_path
    ELSE ResolveDuplicate(f, file_path,
                          NextCandidate(file_path, output_path, op, counter),
                          op, counter + 1)

\* the path _process_file hands to the codec for file_path
OutputPath(f, file_path, op) ==
    IF isdir(f, file_path) THEN ProposedOutput(file_path, op)
    ELSE ResolveDuplicate(f, file_path, ProposedOutput(file_path, op), op, 1)

\* the codec call of _process_file: the possible outcomes
CodecOutcomes(f, file_path, op, pw, hdrs) ==
    LET output_path == OutputPath(f, file_path, op)
    IN  IF isdir(f, file_path)
          THEN IF op = "encrypt"
                 THEN {EncryptDirectoryOutcome(f, file_path, output_path, pw, hdrs)}
                        \cup EncryptDirectoryFaults(f, file_path, output_path, pw, hdrs)
                 ELSE {DecryptDirectoryOutcome(f, file_path, output_path, pw)}
                        \cup DecryptDirectoryFaults(f, file_path, output_path, pw)
          ELSE IF op = "encrypt"
                 THEN {EncryptFileOutcome(f, file_path, output_path, pw, hdrs[file_path])}
                 ELSE DecryptFileOutcomes(f, file_path, output_path, pw)

\* mutant: the original removed before the codec call's outcome is known
ProcessFileRemovesFirst(f, file_path, op, pw, rm, hdrs) ==
    {[fs     |-> IF rm
                   THEN IF isdir(o.fs, file_path) THEN rmtree(o.fs, file_path)
                        ELSE Remove(o.fs, {file_path})
                   ELSE o.fs,
      raised |-> o.raised,
      ret    |-> IF o.raised = "" THEN <<file_path, OutputPath(f, file_path, op)>>
                 ELSE <<>>] : o \in CodecOutcomes(f, file_path, op, pw, hdrs)}

\* _process_file(file_path): the possible [fs, raised, ret], ret being the
\* returned (file_path, output_path) or <<>> for None.  The original is
\* removed only when the codec call returned.
ProcessFileOutcomes(f, file_path, op, pw, rm, hdrs) ==
    {[fs     |-> IF o.raised = "" /\ rm
                   THEN IF isdir(o.fs, file_path) THEN rmtree(o.fs, file_path)
                        ELSE Remove(o.fs, {file_path})
                   ELSE o.fs,
      raised |-> o.raised,
      ret    |-> IF o.raised = "" THEN <<file_path, OutputPath(f, file_path, op)>>
                 ELSE <<>>] : o \in CodecOutcomes(f, file_path, op, pw, hdrs)}

\* the files whose headers a _process_file(file_path) call draws
HeaderDomain(f, file_path) ==
    IF isdir(f, file_path) THEN FilesUnder(f, file_path) ELSE {file_path}


-----------------------------------------------------------------------------
(* SpecCodec: _encrypt_file(InPath, EncPath), then _decrypt_file(EncPath, *)
(* DecPath) by a worker constructed with dpassword                         *)

InPath == <<"/", "f">>

EncPath == InPath \o DEFAULT_ENCRYPTION_EXTENSION

DecPath == <<"/", "g">>

\* the plaintexts explored: n bytes, all `fill` but the last, which is `last`
Plain(n, fill, last) == [i \in 1..n |-> IF i = n THEN last ELSE fill]

PlainLengths == 0..(MaxChunks * BUFFER_SIZE + BlockSize + 1)

FillBytes == {2, 65}

LastBytes == {1, 2, 16, 65}

\* the run() variables while a codec scenario is explored
RunIdle ==
    /\ worker = ""
    /\ files = <<>>
    /\ is_cancelled = FALSE
    /\ pc = "idle"
    /\ idx = 1
    /\ futures = <<>>
    /\ fidx = 1
    /\ processed = 0
    /\ task = <<>>
    /\ events = <<>>
    /\ cancelM = -1
    /\ cancelPc = ""
    /\ lateSubmits = {}
    /\ lateStarts = {}
    /\ runningAtCancel = {}
    /\ finishOrder = <<>>

InitCodec ==
    /\ RunIdle
    /\ OrgIdle
    /\ CatIdle
    /\ \E n \in PlainLengths, fill \in FillBytes, last \in LastBytes :
          fs = (InPath :> FileNode(Plain(n, fill, last)))
    /\ password \in Passwords
    /\ dpassword \in Passwords
    /\ cpc = "enc_setup"
    /\ cipher = NoCipher
    /\ header = NoHeader
    /\ rpos = 0
    /\ raised = ""
    /\ DirIdle

\* salt = get_random_bytes(16); key, _ = derive_key_from_password(...);
\* iv = get_random_bytes(16); cipher = AES.new(key, AES.MODE_CBC, iv);
\* open(input_path, 'rb'), open(output_path, 'wb')
EncSetup ==
    /\ cpc = "enc_setup"
    /\ \E slt \in RandomBlocks, iv \in RandomBlocks :
          /\ header' = [salt |-> slt, iv |-> iv]
          /\ cipher' = NewCipher(derive_key_from_password(password, slt), iv)
    /\ fs' = Put(fs, EncPath, FileNode(<<>>))
    /\ rpos' = 0
    /\ cpc' = "write_salt"
    /\ UNCHANGED <<password, dpassword, raised>>
    /\ UNCHANGED <<runVars, dirVars, orgVars, catVars>>

\* outfile.write(salt)
EncWriteSalt ==
    /\ cpc = "write_salt"
    /\ fs' = Put(fs, EncPath, FileNode(fs[EncPath].data \o header.salt))
    /\ cpc' = "write_iv"
    /\ UNCHANGED <<password, dpassword, cipher, header, rpos, raised>>
    /\ UNCHANGED <<runVars, dirVars, orgVars, catVars>>

\* outfile.write(iv)
EncWriteIv ==
    /\ cpc = "write_iv"
    /\ fs' = Put(fs, EncPath, FileNode(fs[EncPath].data \o header.iv))
    /\ cpc' = "chunk"
    /\ UNCHANGED <<password, dpassword, cipher, header, rpos, raised>>
    /\ UNCHANGED <<runVars, dirVars, orgVars, catVars>>

\* one turn of `while True:` chunk = infile.read(BUFFER_SIZE); break on an
\* empty chunk; pad it if its length is no multiple of 16; encrypt; write
EncChunk ==
    /\ cpc = "chunk"
    /\ LET chunk == ReadChunk(fs[InPath].data, rpos)
       IN  IF Len(chunk) = 0
             THEN /\ cpc' = "encrypted"
                  /\ UNCHANGED <<fs, cipher, rpos>>
             ELSE LET out == CbcEncrypt(cipher.key, cipher.chain, PadChunk(chunk))
                  IN  /\ fs' = Put(fs, EncPath, FileNode(fs[EncPath].data \o out))
                      /\ cipher' = [cipher EXCEPT !.chain = ChainAfter(cipher.chain, out)]
                      /\ rpos' = rpos + Len(chunk)
                      /\ cpc' = "chunk"
    /\ UNCHANGED <<password, dpassword, header, raised>>
    /\ UNCHANGED <<runVars, dirVars, orgVars, catVars>>

\* _decrypt_file(EncPath, DecPath): the output file is opened and written
\* only after unpad returned
DecryptFile ==
    /\ cpc = "encrypted"
    /\ LET r == DecryptedBytes(fs[EncPath].data, dpassword)
       IN  /\ raised' = r.raised
           /\ fs' = IF r.raised = "" THEN Put(fs, DecPath, FileNode(r.data)) ELSE fs
    /\ cpc' = "decrypted"
    /\ UNCHANGED <<password, dpassword, cipher, header, rpos>>
    /\ UNCHANGED <<runVars, dirVars, orgVars, catVars>>

NextCodec ==
    \/ EncSetup
    \/ EncWriteSalt
    \/ EncWriteIv
    \/ EncChunk
    \/ DecryptFile

SpecCodec == InitCodec /\ [][NextCodec]_vars

\* C1 as claimed: for every plaintext length and password, _encrypt_file
\* followed by _decrypt_file with the same password succeeds and writes an
\* output file whose bytes equal the plaintext.
C1_RoundTrip ==
    (cpc = "decrypted" /\ dpassword = password) =>
        /\ raised = ""
        /\ exists(fs, DecPath)
        /\ fs[DecPath].data = fs[InPath].data


-----------------------------------------------------------------------------
(* SpecDir: _process_file(DirPath) by an encrypting worker, then           *)
(* _process_file by a decrypting worker constructed with dpassword, on the *)
(* container the first call returned or on a directory entry               *)

DirPath == <<"/", "d">>

FileA == DirPath \o <<"/", "a", ".", "t", "x", "t">>

SubDir == DirPath \o <<"/", "s", "u", "b">>

FileB == SubDir \o <<"/", "b", ".", "t", "x", "t">>

\* lengths of the two files' contents; none is a multiple of the block size
DirFileLengths == {3, 17, 20}

InitDir ==
    /\ RunIdle
    /\ OrgIdle
    /\ CatIdle
    /\ \E na \in DirFileLengths, nb \in DirFileLengths :
          fs = (DirPath :> DirNode) @@ (FileA :> FileNode(Plain(na, 65, 66)))
                 @@ (SubDir :> DirNode) @@ (FileB :> FileNode(Plain(nb, 67, 1)))
    /\ original = fs
    /\ password \in Passwords
    /\ dpassword \in Passwords
    /\ remove_originals \in BOOLEAN
    /\ operation = "encrypt"
    /\ cpc = "dir_start"
    /\ cipher = NoCipher
    /\ header = NoHeader
    /\ rpos = 0
    /\ raised = ""
    /\ entry = <<>>
    /\ ret = <<>>
    /\ container = <<>>

\* the status_updated signals of one _process_file call
ProcessSignals(msg) ==
    <<Signal("status_updated", 0, 0, "ing")>>
      \o (IF msg = "" THEN <<>> ELSE <<Signal("status_updated", 0, 0, "Error")>>)

\* _process_file(DirPath) with self.operation = "encrypt"
ProcessEncrypt ==
    /\ cpc = "dir_start"
    /\ \E hdrs \in [HeaderDomain(fs, DirPath) -> Headers] :
         \E o \in ProcessFileOutcomes(fs, DirPath, operation, password,
                                      remove_originals, hdrs) :
            /\ fs' = o.fs
            /\ raised' = o.raised
            /\ ret' = o.ret
            /\ container' = IF o.ret = <<>> THEN <<>> ELSE o.ret[2]
            /\ events' = events \o ProcessSignals(o.raised)
    /\ entry' = DirPath
    /\ cpc' = "dir_encrypted"
    /\ UNCHANGED <<password, dpassword, cipher, header, rpos, remove_originals,
                   operation, original>>
    /\ UNCHANGED <<worker, files, is_cancelled, pc, idx, futures, fidx, processed,
                   task, cancelM, cancelPc, lateSubmits, lateStarts, runningAtCancel,
                   finishOrder>>
    /\ UNCHANGED <<orgVars, catVars>>

\* _process_file(e) with self.operation = "decrypt", e the container or the
\* directory itself when it is still there
ProcessDecrypt(e) ==
    /\ cpc = "dir_encrypted"
    /\ ret # <<>>
    /\ exists(fs, e)
    /\ \E o \in ProcessFileOutcomes(fs, e, "decrypt", dpassword, remove_originals, <<>>) :
          /\ fs' = o.fs
          /\ raised' = o.raised
          /\ ret' = o.ret
          /\ events' = events \o ProcessSignals(o.raised)
    /\ entry' = e
    /\ operation' = "decrypt"
    /\ cpc' = "dir_decrypted"
    /\ UNCHANGED <<password, dpassword, cipher, header, rpos, remove_originals,
                   original, container>>
    /\ UNCHANGED <<worker, files, is_cancelled, pc, idx, futures, fidx, processed,
                   task, cancelM, cancelPc, lateSubmits, lateStarts, runningAtCancel,
                   finishOrder>>
    /\ UNCHANGED <<orgVars, catVars>>

NextDir ==
    \/ ProcessEncrypt
    \/ ProcessDecrypt(container)
    \/ ProcessDecrypt(DirPath)

SpecDir == InitDir /\ [][NextDir]_vars

\* the tree below directory d: relative path -> node
TreeOf(f, d) == [m \in {Rel(q, d) : q \in Under(f, d)} |-> f[join(d, m)]]

\* C2 as claimed: encrypting a directory entry through _process_file
\* produces exactly one container file, and decrypting that container through
\* _process_file with the same password reproduces a directory with the same
\* relative paths and byte content, without the manifest among the outputs
\* (calls in which a write is refused by the device aside).
C2_DirectoryRoundTrip ==
    /\ (cpc = "dir_encrypted" /\ raised # ErrWrite) =>
          /\ ret # <<>>
          /\ exists(fs, container) /\ fs[container].kind = "file"
          /\ DOMAIN fs \ DOMAIN original = {container}
    /\ (cpc = "dir_decrypted" /\ entry = container /\ dpassword = password
          /\ raised # ErrWrite) =>
          /\ ret # <<>>
          /\ isdir(fs, ret[2])
          /\ TreeOf(fs, ret[2]) = TreeOf(original, DirPath)
          /\ MANIFEST \notin DOMAIN TreeOf(fs, ret[2])


-----------------------------------------------------------------------------
(* Properties of a run *)

CompletedIdx == {k \in DOMAIN events : events[k].sig = "operation_completed"}

\* entries for which file_processed was emitted
Outcomes == {events[k].a : k \in {j \in DOMAIN events : events[j].sig = "file_processed"}}

\* the last emitted progress value, 0 when none was emitted
LastProgress ==
    LET P == {k \in DOMAIN events : events[k].sig = "progress_updated"}
    IN  IF P = {} THEN 0 ELSE events[CHOOSE k \in P : \A j \in P : j <= k].a

\* the futures the result loop has gone through
Collected == {futures[k] : k \in 1..(fidx - 1)}

Submitted == {futures[k] : k \in DOMAIN futures}

\* directory entries FileOrganizerWorker.run skipped in its submission loop
SkippedDirs ==
    {i \in 1..(idx - 1) : worker = "FileOrganizerWorker" /\ files[i].isdir}

LastEvent == events[Len(events)]

CancelledRun == pc = "done" /\ LastEvent.msg = "Operation cancelled"

SuccessRun == pc = "done" /\ LastEvent.msg = "Successfully"

ErrorRun == pc = "done" /\ LastEvent.msg = "Error"

\* cancel() ran while run() was in its submission loop with entries left
CancelInSubmission ==
    /\ cancelPc \in {"submit_check", "submit_body"}
    /\ cancelM < N

\* C3 as claimed: a cancel() issued after M < N entries were submitted ends
\* the run as cancelled with at most M outcomes, and none of the entries
\* M+1..N is ever submitted or executed.
C3_NoneBeyondM ==
    CancelInSubmission =>
        /\ \A i \in (cancelM + 1)..N : task[i] = "new"
        /\ pc = "done" => CancelledRun /\ Cardinality(Outcomes) <= cancelM

\* C3 amended: a cancel() issued in the submission loop after M < N entries
\* ends the run as cancelled with at most M outcomes; entry M+1 is submitted
\* only if its cancellation check had passed before cancel() ran, and none
\* of the entries M+2..N is ever submitted or executed.
C3_AtMostOneBeyondM ==
    CancelInSubmission =>
        /\ \A i \in (cancelM + 2)..N : task[i] = "new"
        /\ cancelPc = "submit_check" => \A i \in (cancelM + 1)..N : task[i] = "new"
        /\ pc = "done" => CancelledRun /\ Cardinality(Outcomes) <= cancelM

\* C3 witness: cancel() hit between the check and the submit of entry M+1,
\* that entry ran, a later entry was never submitted, and the run is over.
C3_Witness ==
    /\ CancelledRun
    /\ cancelPc = "submit_body"
    /\ cancelM + 1 < N
    /\ task[cancelM + 1] \in Finished
    /\ task[N] = "new"

\* C4 as claimed: no task body begins once the cancellation flag is set.
C4_NoStartAfterCancel == lateStarts = {}

\* C4 amended: once the flag is set no further task is submitted, except
\* the one entry whose cancellation check had already passed; every task
\* body that begins after cancel() belongs to an entry submitted before
\* cancel() (it was queued) or to that one entry.
C4_OnlySubmittedStartAfterCancel ==
    /\ \A i \in lateSubmits : i = cancelM + 1 /\ cancelPc = "submit_body"
    /\ \A i \in lateStarts :
          \/ i <= cancelM
          \/ i = cancelM + 1 /\ cancelPc = "submit_body"

\* C4 witness: an entry submitted before cancel() was still queued behind
\* busy pool threads, began after cancel() and has finished.
C4_Witness ==
    \E i \in lateStarts :
        /\ i <= cancelM
        /\ task[i] \in Finished
        /\ runningAtCancel # {}

\* C5 as claimed: a task running when cancel() is called has its outcome
\* reported before the completion: the result loop went through its
\* future, and its file_processed was emitted if it succeeded.
C5_RunningAtCancelReported ==
    (pc = "done" /\ ~ErrorRun) =>
        \A i \in runningAtCancel :
            /\ i \in Collected
            /\ task[i] = "tuple" => i \in Outcomes

\* C6: operation_completed is emitted exactly once per run, and it is the
\* last signal of the run.
C6_CompletedExactlyOnce ==
    /\ Cardinality(CompletedIdx) <= 1
    /\ \A k \in CompletedIdx : k = Len(events)
    /\ pc = "done" <=> CompletedIdx # {}

\* C6 witness: a cancelled run is over, tasks having emitted status signals.
C6_Witness ==
    /\ CancelledRun
    /\ \E k \in DOMAIN events : events[k].sig = "status_updated"
    /\ \E k \in DOMAIN events : events[k].sig = "progress_updated"

\* C7: operation_completed is never emitted while a submitted task is
\* queued or running.
C7_CompletedAfterDrain == CompletedIdx # {} => InPool = {}

\* C7 witness: submission was cut short by cancel() with a task still queued;
\* it ran, and the completion came after it.
C7_Witness ==
    /\ CancelledRun
    /\ \E i \in lateStarts : i <= cancelM /\ task[i] \in Finished
    /\ \E i \in 1..N : task[i] = "new"

\* C8 as claimed: a non-cancelled completion reports succeeded_count = N - k
\* for k failed tasks, with total_count = N.
C8_SucceededCount ==
    SuccessRun =>
        /\ LastEvent.a = N - Cardinality({i \in 1..N : task[i] = "none"})
        /\ LastEvent.b = N

\* C9: a failing task is contained. Tasks never abort the run (the error
\* completion only follows a dispatcher failure, before any submission);
\* every submitted task has run to completion when the run ends; and only
\* cancellation keeps a result from being reported: a non-cancelled run ends
\* with success = True, every future collected, and file_processed emitted
\* for exactly the tasks that succeeded.
C9_FailureContained ==
    pc = "done" =>
        /\ ErrorRun => \A i \in 1..N : task[i] = "new"
        /\ \A i \in Submitted : task[i] \in Finished
        /\ ~is_cancelled /\ ~ErrorRun =>
              /\ SuccessRun
              /\ Collected = Submitted
              /\ Submitted \cup SkippedDirs = 1..N
              /\ Outcomes = {i \in 1..N : task[i] = "tuple"}

\* C9 witness: a non-cancelled run is over in which one task failed and
\* another succeeded.
C9_Witness ==
    /\ SuccessRun
    /\ ~is_cancelled
    /\ \E i, j \in 1..N : task[i] = "none" /\ task[j] = "tuple" /\ i < j

\* C10 as claimed: at the completion, the last emitted completed value is the
\* number of entries whose processing finished plus the skipped directories,
\* in cancelled as well as non-cancelled runs.
C10_CompletedCountsFinished ==
    pc = "done" =>
        LastProgress =
            Cardinality({i \in 1..N : task[i] \in Finished}) + Cardinality(SkippedDirs)

-----------------------------------------------------------------------------
(* Properties of the signal stream *)

\* the progress_updated signals in emission order
ProgressSeq == SelectSeq(events, LAMBDA e : e.sig = "progress_updated")

\* the file_processed signals in emission order
OutcomeSeq == SelectSeq(events, LAMBDA e : e.sig = "file_processed")

\* position of entry i in a sequence of entries, 0 when absent
Pos(seq, i) ==
    IF \E k \in DOMAIN seq : seq[k] = i
      THEN CHOOSE k \in DOMAIN seq : seq[k] = i
      ELSE 0

\* the run ended without is_cancelled ever having been set
NonCancelledRun == pc = "done" /\ ~is_cancelled

\* C11: the k-th progress signal of a run is (k, N), with k <= N, and a
\* non-cancelled run that ends normally has emitted exactly N of them, the
\* last being (N, N).
C11_ProgressSequence ==
    /\ \A k \in DOMAIN ProgressSeq :
          /\ ProgressSeq[k].a = k
          /\ ProgressSeq[k].b = N
          /\ k <= N
    /\ (NonCancelledRun /\ ~ErrorRun) =>
          /\ Len(ProgressSeq) = N
          /\ ProgressSeq[N].a = N /\ ProgressSeq[N].b = N

\* C11 witness: a non-cancelled FileOrganizerWorker run is over in which a
\* directory was skipped, one task failed and one succeeded.
C11_Witness ==
    /\ NonCancelledRun
    /\ SuccessRun
    /\ SkippedDirs # {}
    /\ \E i, j \in 1..N : task[i] = "none" /\ task[j] = "tuple"
    /\ Len(ProgressSeq) = N

\* C12 as claimed: outcomes and progress increments follow completion order:
\* of two collected tasks the one whose body returned first has its future
\* collected first (its progress increment), and of two reported outcomes
\* the one whose task returned first is emitted first.
C12_CompletionOrder ==
    /\ \A A, B \in Collected :
          Pos(finishOrder, A) < Pos(finishOrder, B) => Pos(futures, A) < Pos(futures, B)
    /\ \A k, l \in DOMAIN OutcomeSeq :
          Pos(finishOrder, OutcomeSeq[k].a) < Pos(finishOrder, OutcomeSeq[l].a) => k < l

\* C13: in a non-cancelled run exactly one file_processed is emitted for each
\* task that succeeded, none for a task that failed or an entry that was
\* skipped, and no entry is the source of two of them.
C13_OneOutcomePerSuccess ==
    /\ \A k, l \in DOMAIN OutcomeSeq : OutcomeSeq[k].a = OutcomeSeq[l].a => k = l
    /\ \A k \in DOMAIN OutcomeSeq : task[OutcomeSeq[k].a] = "tuple"
    /\ NonCancelledRun =>
          \A i \in 1..N :
             Cardinality({k \in DOMAIN OutcomeSeq : OutcomeSeq[k].a = i})
                = IF task[i] = "tuple" THEN 1 ELSE 0

\* C13 witness: a non-cancelled run is over with two succeeded tasks that
\* returned in the reverse of their submission order, and a failed one.
C13_Witness ==
    /\ NonCancelledRun
    /\ Len(OutcomeSeq) = 2
    /\ \E i \in 1..N : task[i] = "none"
    /\ \E i, j \in 1..N :
          /\ i < j
          /\ task[i] = "tuple" /\ task[j] = "tuple"
          /\ Pos(finishOrder, j) < Pos(finishOrder, i)

\* C14: at most MAX_WORKERS task bodies execute at any time, and an entry
\* submitted while MAX_WORKERS bodies execute waits in the pool's queue.
C14_AtMostMaxWorkers ==
    /\ Cardinality(Running) <= MAX_WORKERS
    /\ MAX_WORKERS <= 8
    /\ \A i \in Submitted : task[i] \in {"queued", "running", "tuple", "none"}

\* C14 witness: MAX_WORKERS task bodies execute while a further submitted
\* entry waits in the queue.
C14_Witness ==
    /\ Cardinality(Running) = MAX_WORKERS
    /\ \E i \in Submitted : task[i] = "queued"
    /\ N > MAX_WORKERS

-----------------------------------------------------------------------------
(* get_file_category and FILE_CATEGORIES *)

\* FILE_CATEGORIES: the categories in the order of the dict, each with its
\* list of extensions
FILE_CATEGORIES == <<
    [category |-> <<"I", "m", "a", "g", "e", "s">>,
     extensions |-> <<
         <<".", "j", "p", "g">>,
         <<".", "j", "p", "e", "g">>,
         <<".", "p", "n", "g">>,
         <<".", "g", "i", "f">>,
         <<".", "b", "m", "p">>,
         <<".", "t", "i", "f", "f">>,
         <<".", "w", "e", "b", "p">>,
         <<".", "s", "v", "g">>,
         <<".", "i", "c", "o">>,
         <<".", "h", "e", "i", "c">>>>],
    [category |-> <<"V", "i", "d", "e", "o", "s">>,
     extensions |-> <<
         <<".", "m", "p", "4">>,
         <<".", "a", "v", "i">>,
         <<".", "m", "o", "v">>,
         <<".", "w", "m", "v">>,
         <<".", "f", "l", "v">>,
         <<".", "m", "k", "v">>,
         <<".", "w", "e", "b", "m">>,
         <<".", "m", "4", "v">>,
         <<".", "3", "g", "p">>,
         <<".", "m", "p", "e", "g">>>>],
    [category |-> <<"A", "u", "d", "i", "o">>,
     extensions |-> <<
         <<".", "m", "p", "3">>,
         <<".", "w", "a", "v">>,
         <<".", "o", "g", "g">>,
         <<".", "f", "l", "a", "c">>,
         <<".", "a", "a", "c">>,
         <<".", "w", "m", "a">>,
         <<".", "m", "4", "a">>,
         <<".", "o", "p", "u", "s">>>>],
    [category |-> <<"D", "o", "c", "u", "m", "e", "n", "t", "s">>,
     extensions |-> <<
         <<".", "d", "o", "c">>,
         <<".", "d", "o", "c", "x">>,
         <<".", "o", "d", "t">>>>],
    [category |-> <<"P", "D", "F">>,
     extensions |-> <<
         <<".", "p", "d", "f">>>>],
    [category |-> <<"E", "x", "c", "e", "l">>,
     extensions |-> <<
         <<".", "x", "l", "s">>,
         <<".", "x", "l", "s", "x">>,
         <<".", "c", "s", "v">>,
         <<".", "o", "d", "s">>>>],
    [category |-> <<"P", "o", "w", "e", "r", "P", "o", "i", "n", "t">>,
     extensions |-> <<
         <<".", "p", "p", "t">>,
         <<".", "p", "p", "t", "x">>,
         <<".", "o", "d", "p">>,
         <<".", "k", "e", "y">>>>],
    [category |-> <<"T", "e", "x", "t">>,
     extensions |-> <<
         <<".", "t", "x", "t">>,
         <<".", "r", "t", "f">>,
         <<".", "m", "d">>>>],
    [category |-> <<"A", "r", "c", "h", "i", "v", "e", "s">>,
     extensions |-> <<
         <<".", "z", "i", "p">>,
         <<".", "r", "a", "r">>,
         <<".", "7", "z">>,
         <<".", "t", "a", "r">>,
         <<".", "g", "z">>,
         <<".", "b", "z", "2">>,
         <<".", "x", "z">>,
         <<".", "i", "s", "o">>>>],
    [category |-> <<"C", "o", "d", "e">>,
     extensions |-> <<
         <<".", "p", "y">>,
         <<".", "j", "s">>,
         <<".", "h", "t", "m", "l">>,
         <<".", "c", "s", "s">>,
         <<".", "j", "a", "v", "a">>,
         <<".", "c", "p", "p">>,
         <<".", "c">>,
         <<".", "h">>,
         <<".", "p", "h", "p">>,
         <<".", "r", "b">>,
         <<".", "g", "o">>,
         <<".", "t", "s">>,
         <<".", "j", "s", "o", "n">>,
         <<".", "x", "m", "l">>>>],
    [category |-> <<"E", "x", "e", "c", "u", "t", "a", "b", "l", "e", "s">>,
     extensions |-> <<
         <<".", "e", "x", "e">>,
         <<".", "m", "s", "i">>,
         <<".", "a", "p", "p">>,
         <<".", "d", "m", "g">>,
         <<".", "d", "e", "b">>,
         <<".", "r", "p", "m">>>>],
    [category |-> <<"A", "P", "K">>,
     extensions |-> <<
         <<".", "a", "p", "k">>>>],
    [category |-> <<"O", "n", "e", "N", "o", "t", "e">>,
     extensions |-> <<
         <<".", "o", "n", "e">>,
         <<".", "o", "n", "e", "t", "o", "c", "2">>>>],
    [category |-> <<"E", "n", "c", "r", "y", "p", "t", "e", "d">>,
     extensions |-> <<
         <<".", "e", "n", "c", "r", "y", "p", "t", "e", "d">>,
         <<".", "e", "n", "c">>,
         <<".", "a", "e", "s">>>>],
    [category |-> <<"O", "t", "h", "e", "r", "s">>,
     extensions |-> <<>>]
>>

\* str.lower() on one character
LowerChar(c) ==
    CASE c = "A" -> "a"
      [] c = "B" -> "b"
      [] c = "C" -> "c"
      [] c = "D" -> "d"
      [] c = "E" -> "e"
      [] c = "F" -> "f"
      [] c = "G" -> "g"
      [] c = "H" -> "h"
      [] c = "I" -> "i"
      [] c = "J" -> "j"
      [] c = "K" -> "k"
      [] c = "L" -> "l"
      [] c = "M" -> "m"
      [] c = "N" -> "n"
      [] c = "O" -> "o"
      [] c = "P" -> "p"
      [] c = "Q" -> "q"
      [] c = "R" -> "r"
      [] c = "S" -> "s"
      [] c = "T" -> "t"
      [] c = "U" -> "u"
      [] c = "V" -> "v"
      [] c = "W" -> "w"
      [] c = "X" -> "x"
      [] c = "Y" -> "y"
      [] c = "Z" -> "z"
      [] OTHER -> c

lower(str) == [i \in DOMAIN str |-> LowerChar(str[i])]

\* x in list
InList(x, list) == \E k \in DOMAIN list : list[k] = x

\* mutant: the extension compared as it is written, without .lower()
get_file_category_as_written(file_path) ==
    LET ext == splitext(file_path)[2]
        hits == {k \in DOMAIN FILE_CATEGORIES : InList(ext, FILE_CATEGORIES[k].extensions)}
    IN  IF hits = {} THEN <<"O", "t", "h", "e", "r", "s">>
        ELSE FILE_CATEGORIES[CHOOSE k \in hits : \A j \in hits : k <= j].category

\* get_file_category(file_path): the first category, in dict order, whose
\* list holds the lower-cased extension, "Others" when there is none
get_file_category(file_path) ==
    LET ext == lower(splitext(file_path)[2])
        hits == {k \in DOMAIN FILE_CATEGORIES : InList(ext, FILE_CATEGORIES[k].extensions)}
    IN  IF hits = {} THEN <<"O", "t", "h", "e", "r", "s">>
        ELSE FILE_CATEGORIES[CHOOSE k \in hits : \A j \in hits : k <= j].category

-----------------------------------------------------------------------------
(* FileOrganizerWorker._process_file, run by the pool's threads on a shared *)
(* file system: one task per source file, each step of a task one action.   *)

\* self.destination
destination == <<"/", "o">>

\* type_folder = os.path.join(self.destination, "Organized by Type")
type_folder ==
    join(destination, <<"O", "r", "g", "a", "n", "i", "z", "e", "d", " ", "b", "y",
                        " ", "T", "y", "p", "e">>)

\* date_folder = os.path.join(self.destination, "Organized by Date")
date_folder ==
    join(destination, <<"O", "r", "g", "a", "n", "i", "z", "e", "d", " ", "b", "y",
                        " ", "D", "a", "t", "e">>)

\* the entries of the batch: two files of the same name in two folders
Sources == << <<"/", "a", "/", "r", ".", "t", "x", "t">>,
              <<"/", "b", "/", "r", ".", "t", "x", "t">> >>

Tasks == DOMAIN Sources

\* get_file_date(file_path).strftime("%Y-%m-%d"): the days the modification
\* times of the sources fall on
Days == { <<"2", "0", "2", "4", "-", "0", "5", "-", "0", "1">>,
          <<"2", "0", "2", "4", "-", "0", "5", "-", "0", "2">> }

\* f"{name}_{counter}{ext}"
Numbered(name, counter, ext) == name \o <<"_">> \o IntToStr(counter) \o ext

\* files that may be in the destination tree before the run
PreExisting ==
    LET text == join(type_folder, get_file_category(Sources[1]))
    IN  { join(text, <<"r", ".", "t", "x", "t">>),
          join(text, <<"r", "_", "1", ".", "t", "x", "t">>) }

\* a work item that no pool thread has taken yet
OrgQueued(t, day) ==
    [pc |-> "queued", file_path |-> Sources[t], mdate |-> day, phase |-> "",
     filename |-> <<>>, dest_path |-> <<>>, folder |-> <<>>, name |-> <<>>,
     ext |-> <<>>, counter |-> 0, ret |-> <<>>,
     written |-> {}, overwrote |-> FALSE, alone |-> TRUE, removed |-> FALSE]

OrgActive(t) == org[t].pc \notin {"queued", "done"}

InitOrg ==
    /\ RunIdle
    /\ CatIdle
    /\ organize_by \in {"type", "date", "both"}
    /\ remove_originals \in BOOLEAN
    /\ \E pre \in SUBSET PreExisting :
          fs = [q \in {Sources[t] : t \in Tasks} |->
                    FileNode(<<CHOOSE t \in Tasks : Sources[t] = q>>)]
               @@ [q \in {destination, type_folder, date_folder} |-> DirNode]
               @@ [q \in pre |-> FileNode(<<9>>)]
    /\ org \in [Tasks -> {OrgQueued(t, day) : t \in Tasks, day \in Days}]
    /\ \A t \in Tasks : org[t].file_path = Sources[t]
    /\ operation = ""
    /\ password = 0
    /\ dpassword = 0
    /\ cpc = "idle"
    /\ cipher = NoCipher
    /\ header = NoHeader
    /\ rpos = 0
    /\ raised = ""
    /\ entry = <<>>
    /\ ret = <<>>
    /\ container = <<>>
    /\ original = <<>>

orgFrame ==
    UNCHANGED <<worker, files, is_cancelled, pc, idx, futures, fidx, processed,
                task, cancelM, cancelPc, lateSubmits, lateStarts, runningAtCancel,
                finishOrder, password, dpassword, cpc, cipher, header, rpos, raised,
                remove_originals, operation, entry, ret, container, original,
                organize_by, lru, cat>>

\* the step of thread t that leaves its locals as rec; `alone` records that
\* no other call was in progress during any step of the call
OrgStep(t, rec) ==
    LET others == \E u \in Tasks \ {t} : OrgActive(u)
    IN  org' = [u \in Tasks |->
                  IF u = t THEN [rec EXCEPT !.alone = rec.alone /\ ~others]
                  ELSE IF OrgActive(u) THEN [org[u] EXCEPT !.alone = FALSE]
                  ELSE org[u]]

\* the branch _process_file takes after `phase`: `if type_folder:`,
\* `if date_folder:`, then the removal
PhaseAfter(phase) ==
    IF phase = "" /\ organize_by \in {"type", "both"} THEN "type"
    ELSE IF phase \in {"", "type"} /\ organize_by \in {"date", "both"} THEN "date"
    ELSE "remove"

\* except Exception as e: status_updated.emit("Error: ..."); return None
OrgFail(t) ==
    /\ OrgStep(t, [org[t] EXCEPT !.pc = "done", !.ret = <<>>])
    /\ Emit(Signal("status_updated", t, 0, "Error"))

\* a pool thread takes the work item: filename = os.path.basename(file_path);
\* dest_path = None.  At most MAX_WORKERS calls are in progress.
OrgEnter(t) ==
    /\ org[t].pc = "queued"
    /\ Cardinality({u \in Tasks : OrgActive(u)}) < MAX_WORKERS
    /\ LET next == PhaseAfter("")
       IN  OrgStep(t, [org[t] EXCEPT !.filename = basename(org[t].file_path),
                                     !.phase = next,
                                     !.pc = IF next = "remove" THEN "remove" ELSE "makedirs"])
    /\ UNCHANGED <<fs, events>>
    /\ orgFrame

\* category_folder = os.path.join(type_folder, get_file_category(file_path))
\* or day_folder = os.path.join(date_folder, date.strftime("%Y-%m-%d"));
\* os.makedirs(folder, exist_ok=True); dest_path = os.path.join(folder,
\* filename); counter = 1; name, ext = os.path.splitext(filename).
\* makedirs may raise.
OrgMakeDirs(t, ok) ==
    /\ org[t].pc = "makedirs"
    /\ LET o      == org[t]
           folder == IF o.phase = "type"
                       THEN join(type_folder, get_file_category(o.file_path))
                       ELSE join(date_folder, o.mdate)
           parts  == splitext(o.filename)
       IN  IF ok
             THEN /\ fs' = IF exists(fs, folder) THEN fs ELSE Put(fs, folder, DirNode)
                  /\ OrgStep(t, [o EXCEPT !.folder = folder,
                                          !.dest_path = join(folder, o.filename),
                                          !.counter = 1,
                                          !.name = parts[1],
                                          !.ext = parts[2],
                                          !.pc = "exists"])
                  /\ UNCHANGED events
             ELSE /\ OrgFail(t)
                  /\ UNCHANGED fs
    /\ orgFrame

\* mutant: `if os.path.exists(dest_path):` in place of the while loop
OrgExistsOnce(t) ==
    /\ org[t].pc = "exists"
    /\ LET o == org[t]
       IN  IF exists(fs, o.dest_path)
             THEN OrgStep(t, [o EXCEPT !.dest_path = join(o.folder, Numbered(o.name, o.counter, o.ext)),
                                       !.counter = o.counter + 1,
                                       !.pc = "copy"])
             ELSE OrgStep(t, [o EXCEPT !.pc = "copy"])
    /\ UNCHANGED <<fs, events>>
    /\ orgFrame

\* while os.path.exists(dest_path): new_filename = f"{name}_{counter}{ext}";
\* dest_path = os.path.join(folder, new_filename); counter += 1
\* One evaluation of the loop test, with the loop body when it is true.
OrgExists(t) ==
    /\ org[t].pc = "exists"
    /\ LET o == org[t]
       IN  IF exists(fs, o.dest_path)
             THEN OrgStep(t, [o EXCEPT !.dest_path = join(o.folder, Numbered(o.name, o.counter, o.ext)),
                                       !.counter = o.counter + 1])
             ELSE OrgStep(t, [o EXCEPT !.pc = "copy"])
    /\ UNCHANGED <<fs, events>>
    /\ orgFrame

\* shutil.copy2(file_path, dest_path); status_updated.emit("Copied to ...").
\* copy2 opens dest_path for writing, replacing a file that is there; it
\* raises when the source is gone or the write fails.
OrgCopy(t, ok) ==
    /\ org[t].pc = "copy"
    /\ LET o    == org[t]
           next == PhaseAfter(o.phase)
       IN  IF ok /\ exists(fs, o.file_path)
             THEN /\ fs' = Put(fs, o.dest_path, fs[o.file_path])
                  /\ OrgStep(t, [o EXCEPT !.written = o.written \cup {o.dest_path},
                                          !.overwrote = o.overwrote \/ exists(fs, o.dest_path),
                                          !.phase = next,
                                          !.pc = IF next = "remove" THEN "remove" ELSE "makedirs"])
                  /\ Emit(Signal("status_updated", t, 0, "Copied"))
             ELSE /\ OrgFail(t)
                  /\ UNCHANGED fs
    /\ orgFrame

\* mutant: the original is removed whatever self.remove_originals says
OrgRemoveAlways(t, ok) ==
    /\ org[t].pc = "remove"
    /\ LET o == org[t]
       IN  IF ok /\ exists(fs, o.file_path)
             THEN /\ fs' = Remove(fs, {o.file_path})
                  /\ OrgStep(t, [o EXCEPT !.removed = TRUE, !.pc = "done",
                                          !.ret = <<o.file_path, o.dest_path>>])
                  /\ Emit(Signal("status_updated", t, 0, "Removed"))
             ELSE /\ OrgFail(t)
                  /\ UNCHANGED fs
    /\ orgFrame

\* if self.remove_originals: os.remove(file_path); status_updated.emit(
\* "Removed original: ..."); then return (file_path, dest_path).
\* os.remove raises when the file is gone or cannot be removed.
OrgRemove(t, ok) ==
    /\ org[t].pc = "remove"
    /\ LET o == org[t]
       IN  IF ~remove_originals
             THEN /\ ok
                  /\ OrgStep(t, [o EXCEPT !.pc = "done", !.ret = <<o.file_path, o.dest_path>>])
                  /\ UNCHANGED <<fs, events>>
             ELSE IF ok /\ exists(fs, o.file_path)
                    THEN /\ fs' = Remove(fs, {o.file_path})
                         /\ OrgStep(t, [o EXCEPT !.removed = TRUE, !.pc = "done",
                                                 !.ret = <<o.file_path, o.dest_path>>])
                         /\ Emit(Signal("status_updated", t, 0, "Removed"))
                    ELSE /\ OrgFail(t)
                         /\ UNCHANGED fs
    /\ orgFrame

NextOrg ==
    \/ \E t \in Tasks : OrgEnter(t)
    \/ \E t \in Tasks : \E ok \in BOOLEAN : OrgMakeDirs(t, ok)
    \/ \E t \in Tasks : OrgExists(t)
    \/ \E t \in Tasks : \E ok \in BOOLEAN : OrgCopy(t, ok)
    \/ \E t \in Tasks : \E ok \in BOOLEAN : OrgRemove(t, ok)

SpecOrg == InitOrg /\ [][NextOrg]_vars

-----------------------------------------------------------------------------
(* Properties of the organizer tasks *)

\* the k-th name duplicate resolution tries for filename in folder: the
\* name itself, then name_1.ext, name_2.ext, ...
Candidate(folder, filename, k) ==
    IF k = 0 THEN join(folder, filename)
    ELSE join(folder, Numbered(splitext(filename)[1], k, splitext(filename)[2]))

\* the first of these names that is absent from f
FirstAbsent(f, folder, filename) ==
    LET K == 0..Cardinality(DOMAIN f)
    IN  Candidate(folder, filename,
                  CHOOSE k \in K : /\ ~exists(f, Candidate(folder, filename, k))
                                   /\ \A j \in 0..(k - 1) : exists(f, Candidate(folder, filename, j)))

OrgSucceeded(t) == org[t].pc = "done" /\ org[t].ret # <<>>

OrgFailed(t) == org[t].pc = "done" /\ org[t].ret = <<>>

\* the text category folder the two sources go to
TextFolder == join(type_folder, get_file_category(Sources[1]))

\* C15: a task that runs with no other task in progress copies to the first
\* absent name among name.ext, name_1.ext, name_2.ext, ...; that path is
\* absent when the copy starts, and the copy replaces no existing file.
C15_SequentialResolution ==
    \A t \in Tasks :
        org[t].alone =>
            /\ org[t].pc = "copy" =>
                  /\ org[t].dest_path = FirstAbsent(fs, org[t].folder, org[t].filename)
                  /\ ~exists(fs, org[t].dest_path)
            /\ ~org[t].overwrote

\* C15 witness: r.txt was in the folder; the two tasks ran one after the
\* other and copied to r_1.txt and r_2.txt.
C15_Witness ==
    /\ organize_by = "type"
    /\ \A t \in Tasks : org[t].alone /\ OrgSucceeded(t)
    /\ fs[Candidate(TextFolder, basename(Sources[1]), 0)] = FileNode(<<9>>)
    /\ \E t, u \in Tasks :
          /\ org[t].ret[2] = Candidate(TextFolder, basename(Sources[1]), 1)
          /\ org[u].ret[2] = Candidate(TextFolder, basename(Sources[1]), 2)
          /\ fs[org[t].ret[2]] = FileNode(<<t>>)
          /\ fs[org[u].ret[2]] = FileNode(<<u>>)

\* C16 as claimed: two tasks for sources of the same name never copy to the
\* same path, and when both have succeeded each copy is on disk with the
\* content of its source.
C16_DistinctDestinations ==
    \A t, u \in Tasks :
        (t # u /\ OrgSucceeded(t) /\ OrgSucceeded(u)) =>
            /\ org[t].written \cap org[u].written = {}
            /\ \A q \in org[t].written : exists(fs, q) /\ fs[q] = FileNode(<<t>>)

\* C17: the source of a task is removed only with remove_originals set and
\* after each of its copies (two of them for "both") was written; it is
\* still there, unchanged, while the task has not removed it, so also when
\* the task has failed or remove_originals is unset.
C17_RemoveAfterCopies ==
    \A t \in Tasks :
        /\ org[t].removed =>
              /\ remove_originals
              /\ Cardinality(org[t].written) = IF organize_by = "both" THEN 2 ELSE 1
              /\ ~exists(fs, Sources[t])
        /\ ~org[t].removed => exists(fs, Sources[t]) /\ fs[Sources[t]] = FileNode(<<t>>)
        /\ OrgFailed(t) => ~org[t].removed
        /\ ~remove_originals => ~org[t].removed

\* C17 witness: with "both" and remove_originals one task made its two
\* copies and removed its source; the other failed after its first copy and
\* its source is still there.
C17_Witness ==
    /\ organize_by = "both"
    /\ remove_originals
    /\ \E t, u \in Tasks :
          /\ org[t].removed /\ OrgSucceeded(t)
          /\ OrgFailed(u) /\ Cardinality(org[u].written) = 1
          /\ exists(fs, Sources[u])

-----------------------------------------------------------------------------
(* SpecEntry: one EncryptionWorker._process_file call on an entry, a file  *)
(* or a directory, with files already present at the paths it may write to *)

\* a file to encrypt
EntryFile == <<"/", "f", ".", "t", "x", "t">>

\* a container named with the extension, and one named without it
EntryEnc == EntryFile \o DEFAULT_ENCRYPTION_EXTENSION

EntryOdd == <<"/", "h">>

EntryPlain == Plain(3, 65, 66)

\* the entries a worker with self.operation = op is given
Entries(op) ==
    IF op = "encrypt" THEN {EntryFile, DirPath} ELSE {EntryEnc, EntryOdd, DirPath}

\* the nodes of an entry; containers were written by _encrypt_file with pw
EntryTree(e, pw) ==
    IF e = DirPath THEN (DirPath :> DirNode) @@ (FileA :> FileNode(EntryPlain))
    ELSE IF e = EntryFile THEN (e :> FileNode(EntryPlain))
    ELSE (e :> FileNode(EncryptedBytes(EntryPlain, pw, Rep(0, BlockSize), Rep(201, BlockSize))))

\* what may be there before the call: for a file entry any of the first
\* three paths the duplicate loop tries, for a directory entry a file at
\* the proposed output path and a directory at <output_path>_temp
PreSets(e, op) ==
    LET c0 == ProposedOutput(e, op)
        c1 == NextCandidate(e, c0, op, 1)
        c2 == NextCandidate(e, c1, op, 2)
        t  == c0 \o TEMP
    IN  IF e = DirPath
          THEN {a @@ b : a \in {<<>>, (c0 :> FileNode(<<9>>))},
                         b \in {<<>>, (t :> DirNode) @@ (join(t, <<"x">>) :> FileNode(<<9>>))}}
          ELSE {[q \in S |-> FileNode(<<9>>)] : S \in SUBSET {c0, c1, c2}}

InitEntry ==
    /\ RunIdle
    /\ OrgIdle
    /\ CatIdle
    /\ operation \in {"encrypt", "decrypt"}
    /\ password \in Passwords
    /\ dpassword \in Passwords
    /\ remove_originals \in BOOLEAN
    /\ entry \in Entries(operation)
    /\ \E pre \in PreSets(entry, operation) : fs = EntryTree(entry, password) @@ pre
    /\ original = fs
    /\ cpc = "entry_start"
    /\ cipher = NoCipher
    /\ header = NoHeader
    /\ rpos = 0
    /\ raised = ""
    /\ ret = <<>>
    /\ container = <<>>

\* _process_file(entry) by a worker with self.operation = operation; an
\* encrypting worker holds `password`, a decrypting one `dpassword`
EntryProcess ==
    /\ cpc = "entry_start"
    /\ \E hdrs \in [HeaderDomain(fs, entry) -> Headers] :
         \E o \in ProcessFileOutcomes(fs, entry, operation,
                                      IF operation = "encrypt" THEN password ELSE dpassword,
                                      remove_originals, hdrs) :
            /\ fs' = o.fs
            /\ raised' = o.raised
            /\ ret' = o.ret
            /\ events' = events \o ProcessSignals(o.raised)
    /\ cpc' = "entry_done"
    /\ UNCHANGED <<password, dpassword, cipher, header, rpos, remove_originals,
                   operation, entry, container, original>>
    /\ UNCHANGED <<worker, files, is_cancelled, pc, idx, futures, fidx, processed,
                   task, cancelM, cancelPc, lateSubmits, lateStarts, runningAtCancel,
                   finishOrder>>
    /\ UNCHANGED <<orgVars, catVars>>

NextEntry == EntryProcess

SpecEntry == InitEntry /\ [][NextEntry]_vars

\* the entry and everything below it
EntryPaths(f) == {entry} \cup Under(f, entry)

\* C18: the entry is gone only if remove_originals is set and the codec call
\* returned, and then it is gone with everything below it; when the call
\* raised, the entry and everything below it are as before.
C18_RemoveAfterCodec ==
    cpc = "entry_done" =>
        /\ (\E q \in EntryPaths(original) : ~exists(fs, q)) =>
              /\ remove_originals
              /\ raised = "" /\ ret # <<>>
              /\ \A q \in EntryPaths(original) : ~exists(fs, q)
        /\ (raised = "" /\ remove_originals) => ~exists(fs, entry)
        /\ raised # "" =>
              \A q \in EntryPaths(original) : exists(fs, q) /\ fs[q] = original[q]

\* C18 witness: with remove_originals set a decryption with the wrong
\* password has raised and the container is still there.
C18_Witness ==
    /\ cpc = "entry_done"
    /\ remove_originals
    /\ operation = "decrypt"
    /\ dpassword # password
    /\ raised = ErrPadding
    /\ exists(fs, entry) /\ fs[entry] = original[entry]

\* C19 as claimed: for a file and for a directory entry the returned output
\* path did not exist before the call, and whatever existed outside the
\* entry before the call is still there unchanged.
C19_OutputNeverExisted ==
    cpc = "entry_done" =>
        /\ ret # <<>> => ~exists(original, ret[2])
        /\ \A q \in DOMAIN original \ EntryPaths(original) :
              exists(fs, q) /\ fs[q] = original[q]

\* the name the naming scheme gives after k collisions
ClaimedCandidate(file_path, op, k) ==
    LET c0   == ProposedOutput(file_path, op)
        b    == basename(c0)
        base == IF startswith(b, DECRYPTED) THEN SubSeq(b, Len(DECRYPTED) + 1, Len(b)) ELSE b
    IN  IF k = 0 THEN c0
        ELSE IF op = "encrypt"
          THEN Numbered(splitext(file_path)[1], k, splitext(file_path)[2])
                 \o DEFAULT_ENCRYPTION_EXTENSION
        ELSE join(dirname(c0), DECRYPTED \o IntToStr(k) \o <<"_">> \o base)

\* C20 as claimed: a file entry is written to the first absent name of
\* <source>.encrypted, <name>_1<ext>.encrypted, <name>_2<ext>.encrypted, ...
\* when encrypting, and of the stripped name (or decrypted_<base>),
\* decrypted_1_<base>, decrypted_2_<base>, ... when decrypting.
C20_Naming ==
    (cpc = "entry_done" /\ ret # <<>> /\ ~isdir(original, entry)) =>
        \E k \in 0..Cardinality(DOMAIN original) :
            /\ ret[2] = ClaimedCandidate(entry, operation, k)
            /\ \A j \in 0..(k - 1) : exists(original, ClaimedCandidate(entry, operation, j))

-----------------------------------------------------------------------------
(* SpecCat: calls of get_file_category, which is wrapped in                *)
(* @lru_cache(maxsize=1024)                                                *)

\* lru_cache(maxsize=1024); the model's cache keeps LruMaxSize results
LruMaxSize == 2

\* the paths get_file_category is called with
CatPaths ==
    { <<"/", "a", ".", "j", "p", "g">>,
      <<"/", "a", ".", "J", "P", "G">>,
      <<"/", "a", ".", "J", "p", "g">>,
      <<"/", "a", ".", "t", "a", "r", ".", "g", "z">>,
      <<"/", "A", ".", "K", "E", "Y">>,
      <<"/", "a", ".", "e", "n", "c", "r", "y", "p", "t", "e", "d">>,
      <<"/", "a", ".", "x", "y", "z">>,
      <<"/", "a">>,
      <<"/", "a", ".">>,
      <<"/", ".", "t", "x", "t">>,
      <<"/", "d", ".", "p", "y", "/", "a">> }

InitCat ==
    /\ RunIdle
    /\ OrgIdle
    /\ CodecIdle
    /\ CatIdle

\* get_file_category(p): a result in the cache is returned and becomes the
\* most recently used; otherwise the function body runs and its result is
\* stored, the least recently used one leaving a full cache
CatCall(p) ==
    /\ LET H == {k \in DOMAIN lru : lru[k][1] = p}
       IN  IF H # {}
             THEN LET k == CHOOSE x \in H : TRUE
                  IN  /\ cat' = [arg |-> p, ret |-> lru[k][2], hit |-> TRUE]
                      /\ lru' = SubSeq(lru, 1, k - 1) \o SubSeq(lru, k + 1, Len(lru))
                                   \o <<lru[k]>>
             ELSE LET r == get_file_category(p)
                  IN  /\ cat' = [arg |-> p, ret |-> r, hit |-> FALSE]
                      /\ lru' = (IF Len(lru) >= LruMaxSize THEN Tail(lru) ELSE lru)
                                   \o << <<p, r>> >>
    /\ UNCHANGED <<runVars, codecVars, dirVars, orgVars>>

NextCat == \E p \in CatPaths : CatCall(p)

SpecCat == InitCat /\ [][NextCat]_vars

\* the labels of FILE_CATEGORIES
CategoryLabels == {FILE_CATEGORIES[k].category : k \in DOMAIN FILE_CATEGORIES}

\* the categories whose list holds the lower-cased extension of path
CategoriesOf(path) ==
    {k \in DOMAIN FILE_CATEGORIES :
        InList(lower(splitext(path)[2]), FILE_CATEGORIES[k].extensions)}

\* paths that differ at most in the case of their extension
SameButExtensionCase(p, q) ==
    /\ splitext(p)[1] = splitext(q)[1]
    /\ lower(splitext(p)[2]) = lower(splitext(q)[2])

\* C21: every call returns one label of FILE_CATEGORIES: the one category
\* that lists the lower-cased extension (no extension is listed twice, in
\* one category or in two), "Others" when none does; paths that differ only
\* in the case of the extension get the same label, and a call served from
\* the cache returns what the function body returns.
C21_CategoryTotal ==
    /\ \A k, j \in DOMAIN FILE_CATEGORIES :
          \A x \in DOMAIN FILE_CATEGORIES[k].extensions :
             \A y \in DOMAIN FILE_CATEGORIES[j].extensions :
                FILE_CATEGORIES[k].extensions[x] = FILE_CATEGORIES[j].extensions[y]
                   => (k = j /\ x = y)
    /\ cat.arg # <<>> =>
          /\ cat.ret \in CategoryLabels
          /\ Cardinality(CategoriesOf(cat.arg)) <= 1
          /\ \A k \in CategoriesOf(cat.arg) : cat.ret = FILE_CATEGORIES[k].category
          /\ CategoriesOf(cat.arg) = {} => cat.ret = <<"O", "t", "h", "e", "r", "s">>
          /\ cat.ret = get_file_category(cat.arg)
          /\ \A q \in CatPaths :
                SameButExtensionCase(cat.arg, q) => get_file_category(q) = cat.ret
    /\ \A k \in DOMAIN lru : lru[k][2] = get_file_category(lru[k][1])

\* C21 witness: /a.JPG was served from the cache as Images while the cache
\* is full.
C21_Witness ==
    /\ cat.hit
    /\ cat.arg = <<"/", "a", ".", "J", "P", "G">>
    /\ cat.ret = <<"I", "m", "a", "g", "e", "s">>
    /\ Len(lru) = LruMaxSize

-----------------------------------------------------------------------------
(* Further properties of a run *)

\* C22 as claimed: a run is reported as cancelled only if cancel() ran
\* before every entry had been submitted, that is in or before the
\* submission loop with entries left.
C22_CancelledOnlyBeforeAllSubmitted ==
    CancelledRun =>
        /\ cancelPc \in {"start", "pool", "submit_check", "submit_body"}
        /\ cancelM < N

\* C23: a failure of the dispatcher before its loops (os.makedirs in
\* Organize mode, the pool's constructor) starts no task and emits nothing
\* but one operation_completed(False, "Error: ..."); a run that ends without
\* having entered its submission loop and without cancellation ends so.
C23_DispatcherFailure ==
    /\ pc = "except" =>
          /\ \A i \in 1..N : task[i] = "new"
          /\ futures = <<>>
          /\ events = <<>>
    /\ ErrorRun =>
          /\ \A i \in 1..N : task[i] = "new"
          /\ futures = <<>>
          /\ events = <<Signal("operation_completed", 0, 0, "Error")>>
    /\ (pc = "done" /\ idx = 1 /\ ~is_cancelled) => ErrorRun

\* C23 witness: the pool of an EncryptionWorker could not be created and the
\* run is over.
C23_Witness ==
    /\ ErrorRun
    /\ worker = "EncryptionWorker"
    /\ N > 1

\* C27: FileOrganizerWorker never submits a directory entry, so no task body
\* (the only code that copies or removes files) runs for it, and counts it
\* once; a non-cancelled batch of directories only ends after N progress
\* signals, the last (N, N), with no task and no status signal.
C27_DirectoriesSkipped ==
    worker = "FileOrganizerWorker" =>
        /\ \A i \in 1..N : files[i].isdir => (task[i] = "new" /\ i \notin Submitted)
        /\ Len(ProgressSeq) >= Cardinality(SkippedDirs)
        /\ (\A i \in 1..N : files[i].isdir) =>
              /\ futures = <<>>
              /\ \A k \in DOMAIN events :
                    events[k].sig \in {"progress_updated", "operation_completed"}
              /\ Len(ProgressSeq) = idx - 1
              /\ (NonCancelledRun /\ ~ErrorRun) =>
                    /\ Len(ProgressSeq) = N
                    /\ ProgressSeq[N].a = N /\ ProgressSeq[N].b = N

\* C27 witness: a non-cancelled batch of directories only has ended.
C27_Witness ==
    /\ worker = "FileOrganizerWorker"
    /\ N > 1
    /\ \A i \in 1..N : files[i].isdir
    /\ SuccessRun /\ ~is_cancelled

-----------------------------------------------------------------------------
(* The layout _encrypt_file writes *)

\* the bytes of the output file of _encrypt_file so far
Written == IF EncPath \in DOMAIN fs THEN fs[EncPath].data ELSE <<>>

\* C26: _encrypt_file writes the salt, then the IV, then the ciphertext of
\* the chunks read so far in read order, and nothing before the 32 header
\* bytes; the chunk handed to the cipher has a multiple of 16 bytes, and a
\* chunk that is padded is the last one of the file.
C26_EncryptLayout ==
    LET data  == fs[InPath].data
        chunk == ReadChunk(data, rpos)
    IN  /\ cpc = "enc_setup" => EncPath \notin DOMAIN fs
        /\ cpc = "write_salt" => Written = <<>>
        /\ cpc = "write_iv" => Written = header.salt
        /\ cpc \in {"chunk", "encrypted"} =>
              /\ Len(header.salt) = 16 /\ Len(header.iv) = 16
              /\ Len(Written) >= 32
              /\ SubSeq(Written, 1, 16) = header.salt
              /\ SubSeq(Written, 17, 32) = header.iv
              /\ SubSeq(Written, 33, Len(Written)) =
                    EncryptChunks(cipher.key, header.iv, SubSeq(data, 1, rpos), 0)
              /\ (Len(Written) - 32) % 16 = 0
        /\ cpc = "encrypted" => rpos = Len(data)
        /\ (cpc = "chunk" /\ Len(chunk) > 0) =>
              /\ Len(PadChunk(chunk)) % 16 = 0
              /\ PadChunk(chunk) # chunk => rpos + Len(chunk) = Len(data)

\* C26 witness: a file of two chunks, the second one padded, is encrypted.
C26_Witness ==
    /\ cpc = "encrypted"
    /\ Len(fs[InPath].data) > BUFFER_SIZE
    /\ Len(fs[InPath].data) % 16 # 0
    /\ Len(Written) = 32 + BUFFER_SIZE + 16 * ((Len(fs[InPath].data) - BUFFER_SIZE) \div 16 + 1)

-----------------------------------------------------------------------------
(* Failures of a single-file decryption *)

\* a decrypting _process_file call on a file entry has ended
FileDecrypted ==
    /\ cpc = "entry_done"
    /\ operation = "decrypt"
    /\ ~isdir(original, entry)

\* C24: when unpadding the decrypted bytes of the entry fails, _decrypt_file
\* raises "Invalid padding or incorrect password", _process_file returns
\* None after one "Error: ..." status, and the codec ran once: one
\* "Decrypting ..." status and nothing written.
C24_PaddingFailure ==
    (FileDecrypted /\ DecryptedBytes(original[entry].data, dpassword).raised = ErrPadding) =>
        /\ raised = ErrPadding
        /\ ret = <<>>
        /\ events = <<Signal("status_updated", 0, 0, "ing"),
                      Signal("status_updated", 0, 0, "Error")>>
        /\ fs = original

\* C24 witness: a container was decrypted with another password than it was
\* encrypted with, and the padding was found invalid.
C24_Witness ==
    /\ FileDecrypted
    /\ dpassword # password
    /\ DecryptedBytes(original[entry].data, dpassword).raised = ErrPadding
    /\ raised = ErrPadding

\* C29 as claimed: when a single-file decryption raises, the file system is
\* as before the call: no file at the resolved output path, the container
\* untouched.
C29_FailedDecryptionLeavesNothing ==
    (FileDecrypted /\ raised # "") =>
        /\ ~exists(fs, OutputPath(original, entry, "decrypt"))
        /\ fs = original

-----------------------------------------------------------------------------
(* SpecArchive: _encrypt_directory and _decrypt_directory called on their own *)

\* the output_path given to _encrypt_directory, the output_dir given to
\* _decrypt_directory
ArchivePath == DirPath \o DEFAULT_ENCRYPTION_EXTENSION

RestoredPath == <<"/", "r">>

\* a file that is no archive
NoArchive == <<"/", "n">>

\* what may lie at the temporary paths before a call: a directory with a
\* file in it at <path>_temp, a file at <path>.zip
Leftovers ==
    {(p \o TEMP :> DirNode) @@ (join(p \o TEMP, <<"x">>) :> FileNode(<<9>>)) :
        p \in {ArchivePath, NoArchive}}
      \cup {(p \o ZIP :> FileNode(<<9>>)) : p \in {ArchivePath, NoArchive}}

RECURSIVE Merge(_)
Merge(S) == IF S = {} THEN <<>> ELSE LET x == CHOOSE y \in S : TRUE IN x @@ Merge(S \ {x})

InitArchive ==
    /\ RunIdle
    /\ OrgIdle
    /\ CatIdle
    /\ \E na \in DirFileLengths, pre \in SUBSET Leftovers :
          fs = (DirPath :> DirNode) @@ (FileA :> FileNode(Plain(na, 65, 66)))
                 @@ (SubDir :> DirNode) @@ (FileB :> FileNode(Plain(3, 67, 1)))
                 @@ (NoArchive :> FileNode(<<9>>)) @@ Merge(pre)
    /\ original = fs
    /\ password \in Passwords
    /\ dpassword \in Passwords
    /\ remove_originals = FALSE
    /\ operation = "encrypt"
    /\ cpc = "arch_start"
    /\ cipher = NoCipher
    /\ header = NoHeader
    /\ rpos = 0
    /\ raised = ""
    /\ entry = <<>>
    /\ ret = <<>>
    /\ container = <<>>

archFrame ==
    /\ UNCHANGED <<password, dpassword, cipher, header, rpos, remove_originals,
                   original, ret>>
    /\ UNCHANGED <<runVars, orgVars, catVars>>

\* _encrypt_directory(DirPath, ArchivePath), returning or raising
EncryptDirectory ==
    /\ cpc = "arch_start"
    /\ \E hdrs \in [HeaderDomain(fs, DirPath) -> Headers] :
         \E o \in {EncryptDirectoryOutcome(fs, DirPath, ArchivePath, password, hdrs)}
                    \cup EncryptDirectoryFaults(fs, DirPath, ArchivePath, password, hdrs) :
            /\ fs' = o.fs
            /\ raised' = o.raised
    /\ entry' = DirPath
    /\ container' = ArchivePath
    /\ operation' = "encrypt"
    /\ cpc' = "arch_encrypted"
    /\ archFrame

\* _decrypt_directory(e, RestoredPath), returning or raising, for the
\* archive written before or for a file that is no archive
DecryptDirectory(e) ==
    /\ \/ cpc = "arch_encrypted" /\ raised = "" /\ e = ArchivePath
       \/ cpc = "arch_start" /\ e = NoArchive
    /\ \E o \in {DecryptDirectoryOutcome(fs, e, RestoredPath, dpassword)}
                  \cup DecryptDirectoryFaults(fs, e, RestoredPath, dpassword) :
          /\ fs' = o.fs
          /\ raised' = o.raised
    /\ entry' = e
    /\ operation' = "decrypt"
    /\ cpc' = "arch_decrypted"
    /\ UNCHANGED container
    /\ archFrame

NextArchive ==
    \/ EncryptDirectory
    \/ DecryptDirectory(ArchivePath)
    \/ DecryptDirectory(NoArchive)

SpecArchive == InitArchive /\ [][NextArchive]_vars

\* nothing at path and nothing below it
Gone(f, path) == ~exists(f, path) /\ Under(f, path) = {}

-----------------------------------------------------------------------------
(* SpecStage: EncryptionWorker._process_file with self.operation =        *)
(* "encrypt" on the directory entries DirPath and SubDir, one below the   *)
(* other, in two pool threads; the bytes of the files are not tracked     *)

\* the batch: pairwise distinct entry paths
StageEntries == <<DirPath, SubDir>>

StageTasks == 1..Len(StageEntries)

\* output_path of task t (1021) and temp_dir of its _encrypt_directory (1144)
StageOutput(t) == ProposedOutput(StageEntries[t], "encrypt")

StageTemp(t) == StageOutput(t) \o TEMP

\* the entries of directory d, as os.walk lists them
Children(f, d) == {q \in DOMAIN f : q # d /\ dirname(q) = d}

InitStage ==
    /\ RunIdle
    /\ CatIdle
    /\ organize_by = ""
    /\ \E withA \in BOOLEAN :
          fs = (DirPath :> DirNode) @@ (SubDir :> DirNode) @@ (FileB :> FileNode(<<9>>))
                 @@ (IF withA THEN (FileA :> FileNode(<<9>>)) ELSE <<>>)
    /\ original = fs
    /\ org = [t \in StageTasks |->
                [file_path |-> StageEntries[t], phase |-> "queued", todo |-> {},
                 touched |-> {}, raised |-> ""]]
    /\ remove_originals \in BOOLEAN
    /\ operation = "encrypt"
    /\ password \in Passwords
    /\ dpassword = password
    /\ cpc = "stage"
    /\ cipher = NoCipher
    /\ header = NoHeader
    /\ rpos = 0
    /\ raised = ""
    /\ entry = <<>>
    /\ ret = <<>>
    /\ container = <<>>

stageFrame ==
    /\ UNCHANGED <<password, dpassword, cpc, cipher, header, rpos, raised>>
    /\ UNCHANGED <<remove_originals, operation, entry, ret, container, original>>
    /\ UNCHANGED <<runVars, catVars, organize_by>>

\* the locals of task t after a step: its phase, the directories os.walk
\* has still to list, the paths the step listed, read, wrote or removed
StageStep(t, phase, todo, touched, msg) ==
    org' = [org EXCEPT ![t] = [@ EXCEPT !.phase = phase, !.todo = todo,
                                        !.touched = @ \cup touched,
                                        !.raised = msg]]

\* if os.path.isdir(file_path) ... self._encrypt_directory(file_path,
\* output_path): temp_dir = output_path + "_temp"; os.makedirs(temp_dir,
\* exist_ok=True).  An entry that is no directory any more goes to
\* _encrypt_file, whose open raises.
StageEnter(t) ==
    /\ org[t].phase = "queued"
    /\ IF isdir(fs, org[t].file_path)
         THEN /\ fs' = Put(fs, StageTemp(t), DirNode)
              /\ StageStep(t, "walk", {org[t].file_path}, {StageTemp(t)}, "")
         ELSE /\ UNCHANGED fs
              /\ StageStep(t, "done", {}, {}, "FileNotFoundError")
    /\ stageFrame

\* one turn of `for root, dirs, files in os.walk(input_dir)`: root = d is
\* listed, its mirror directory is made below temp_dir, each of its files is
\* encrypted into the mirror, its directories are walked later.  A directory
\* that is gone when its turn comes is passed over by os.walk.
StageWalk(t) ==
    /\ org[t].phase = "walk"
    /\ \E d \in org[t].todo :
         LET input_dir == org[t].file_path
             mirror == IF d = input_dir THEN StageTemp(t)
                       ELSE join(StageTemp(t), Rel(d, input_dir))
             dirs   == {q \in Children(fs, d) : fs[q].kind = "dir"}
             ch     == {q \in Children(fs, d) : fs[q].kind = "file"}
             out    == {<<join(mirror, basename(q)) \o DEFAULT_ENCRYPTION_EXTENSION,
                          OpaqueNode>> : q \in ch}
         IN  IF ~isdir(fs, d)
               THEN /\ UNCHANGED fs
                    /\ StageStep(t, "walk", org[t].todo \ {d}, {}, "")
               ELSE /\ fs' = PutAll(Put(fs, mirror, DirNode), out)
                    /\ StageStep(t, "walk", (org[t].todo \ {d}) \cup dirs,
                                 {d, mirror} \cup ch \cup {pr[1] : pr \in out}, "")
    /\ stageFrame

\* after the walk: the manifest is written into temp_dir, make_archive packs
\* temp_dir, os.rename gives the archive its name; open raises when temp_dir
\* is gone
StagePack(t) ==
    /\ org[t].phase = "walk"
    /\ org[t].todo = {}
    /\ LET temp_dir == StageTemp(t)
           f1       == Put(fs, join(temp_dir, MANIFEST), JsonNode)
           members  == [m \in {Rel(q, temp_dir) : q \in Under(f1, temp_dir)} |->
                           f1[join(temp_dir, m)]]
       IN  IF ~isdir(fs, temp_dir)
             THEN /\ UNCHANGED fs
                  /\ StageStep(t, "finally", {}, {}, "FileNotFoundError")
             ELSE /\ fs' = Put(f1, StageOutput(t), ZipNode(members))
                  /\ StageStep(t, "finally", {},
                               {temp_dir, join(temp_dir, MANIFEST), StageOutput(t)}
                                  \cup Under(fs, temp_dir), "")
    /\ stageFrame

\* finally: if os.path.exists(temp_dir): shutil.rmtree(temp_dir); then back
\* in _process_file, which removes the original only after a return
StageFinally(t) ==
    /\ org[t].phase = "finally"
    /\ fs' = FinallyEncrypt(fs, StageTemp(t))
    /\ StageStep(t,
                 IF org[t].raised = "" /\ remove_originals THEN "remove" ELSE "done",
                 {},
                 IF exists(fs, StageTemp(t))
                   THEN {StageTemp(t)} \cup Under(fs, StageTemp(t)) ELSE {},
                 org[t].raised)
    /\ stageFrame

\* if self.remove_originals: if os.path.isdir(file_path):
\* shutil.rmtree(file_path) else: os.remove(file_path)
StageRemove(t) ==
    /\ org[t].phase = "remove"
    /\ IF isdir(fs, org[t].file_path)
         THEN /\ fs' = rmtree(fs, org[t].file_path)
              /\ StageStep(t, "done", {},
                           {org[t].file_path} \cup Under(fs, org[t].file_path), "")
         ELSE /\ UNCHANGED fs
              /\ StageStep(t, "done", {}, {}, "FileNotFoundError")
    /\ stageFrame

NextStage ==
    \E t \in StageTasks :
        \/ StageEnter(t)
        \/ StageWalk(t)
        \/ StagePack(t)
        \/ StageFinally(t)
        \/ StageRemove(t)

SpecStage == InitStage /\ [][NextStage]_vars

\* path is the staging directory of task u or lies below it
InStaging(path, u) ==
    path = StageTemp(u) \/ startswith(path, StageTemp(u) \o <<SEP>>)

\* C28 as claimed: no task of the batch lists, reads, writes or removes the
\* staging directory of another task or anything below it, also when one
\* entry lies below another.
C28_StagingOwnedExclusively ==
    \A t \in DOMAIN org : \A u \in DOMAIN org :
        t # u => \A q \in org[t].touched : ~InStaging(q, u)

-----------------------------------------------------------------------------
(* SpecRunFair: the run with its scheduling.  The thread of run() and the  *)
(* pool's threads are operating-system threads, each of which goes on as    *)
(* long as it can take a step; a task body that has begun returns or        *)
(* raises (its I/O returns).  Nothing is assumed about cancel().            *)

\* the steps of the thread that executes run()
RunStep ==
    \/ Start
    \/ CreatePool
    \/ SubmitCheck
    \/ SubmitBody
    \/ ResultCheck
    \/ ResultWait
    \/ Shutdown
    \/ Final
    \/ Except

SpecRunFair ==
    /\ SpecRun
    /\ WF_vars(RunStep)
    /\ \A i \in 1..MaxFiles :
          /\ WF_vars(i <= N /\ TaskStart(i))
          /\ WF_vars(i <= N /\ \E ok \in BOOLEAN : TaskFinish(i, ok))

\* C30: every run ends: run() eventually has emitted operation_completed as
\* its last signal, whatever the size of the batch and whenever cancel() is
\* called.
C30_Terminates ==
    <>(/\ pc = "done"
       /\ events # <<>>
       /\ events[Len(events)].sig = "operation_completed")

\* C30 witness: a batch larger than the pool was cancelled while task bodies
\* were running and work items were queued, and the run has ended.
C30_Witness ==
    /\ pc = "done"
    /\ N > MAX_WORKERS
    /\ is_cancelled
    /\ runningAtCancel # {}
    /\ lateStarts # {}

====
